---- MODULE Spec2Model ----
(***************************************************************************)
(* Order / inventory / ledger transaction engine of SanityFlowPOS.         *)
(*                                                                         *)
(* The relational store is modelled by one variable per table.  Money is   *)
(* kept in hundredths of a currency unit: a unit price p sold q times at   *)
(* d percent discount is the integer p * (100 - d) * q, which is the       *)
(* code's p * (1 - d / 100.0) * q multiplied by 100.  Optional columns     *)
(* are sequences of length 0 (None) or 1.  uuid4 keys are fresh integers.  *)
(* Text columns that the code later matches with LIKE or REGEXP are kept   *)
(* as sequences of tokens (transaction_id) or as records holding the parts *)
(* the f-string was built from (InventoryHistory.description).             *)
(***************************************************************************)
EXTENDS Integers, Sequences, FiniteSets, TLC

VARIABLES item_rows, sizes, categories, history, orders, dues, last, nOps, txs

vars == <<item_rows, sizes, categories, history, orders, dues, last, nOps, txs>>

(* ------------------------------------------------------------------ *)
(* Bounds and input sets                                              *)
(* ------------------------------------------------------------------ *)

\* number of requests in one behaviour
MaxOps == 3

None == <<>>
Some(v) == <<v>>
IsNone(o) == Len(o) = 0
Val(o) == o[1]

ItemIds == {1}
SizeLabels == {"S", "M"}
SizeKeys == {<<1, "S">>, <<1, "M">>}
CategoryIds == {"c1"}
ShopperIds == {1}

\* customer_code values of a sale request: absent, a known shopper, unknown
CustomerCodes == {"", "C1", "C9"}

\* OrderItemCreate.quantity and ReturnItemRequest.quantity are plain int
SaleQuantities == {-1, 1, 2}
ReturnQuantities == {-1, 1, 2}

\* free text a caller can send (ReturnRequest.reason, RestockRequest.description,
\* ItemSizeUpdate.correction_reason): the words, and the order-item ids that the
\* text spells out as "Order Item ID: <id>"
PlainReason == [words |-> "Customer return", names |-> {}]

\* a reason that quotes another line of the receipt
QuotingReason == [words |-> "Swapped for the item of Order Item ID: 2", names |-> {2}]

ReasonTexts == {PlainReason, QuotingReason}

(* ------------------------------------------------------------------ *)
(* Rows                                                               *)
(* ------------------------------------------------------------------ *)

NoSize == [present |-> FALSE, price |-> 0, discount |-> None, stock |-> 0]

ItemSize(price, discount, stock) ==
    [present |-> TRUE, price |-> price, discount |-> discount, stock |-> stock]

InventoryHistory(item_id, change, type, description) ==
    [item_id |-> item_id, change |-> change, type |-> type,
     description |-> description]

OrderItem(id, item_id, size_label, quantity, price_at_purchase, discount_applied) ==
    [id |-> id, item_id |-> item_id, size_label |-> size_label,
     quantity |-> quantity, price_at_purchase |-> price_at_purchase,
     discount_applied |-> discount_applied]

Order(id, transaction_id, amount, shopper_id, items) ==
    [id |-> id, transaction_id |-> transaction_id, amount |-> amount,
     shopper_id |-> shopper_id, items |-> items]

\* variant: the row does not name its order
DueWithoutOrder(shopper_id, order_id, amount) ==
    [shopper_id |-> shopper_id, order_id |-> <<>>, amount |-> amount]

Due(shopper_id, order_id, amount) ==
    [shopper_id |-> shopper_id, order_id |-> order_id, amount |-> amount]

\* InventoryHistory.description: the f-string that built it and its arguments
Description(fmt, order_item, order, reason) ==
    [fmt |-> fmt, order_item |-> order_item, order |-> order, reason |-> reason]

NoText == [words |-> "", names |-> {}]

\* an items row, and the place of a row that has been deleted
ItemRow(category_id) == [present |-> TRUE, category_id |-> category_id]

NoItem == [present |-> FALSE, category_id |-> None]

\* the committed tables as one value, for the request handlers
Store == [sizes |-> sizes, history |-> history, orders |-> orders, dues |-> dues]

(* ------------------------------------------------------------------ *)
(* Helpers                                                            *)
(* ------------------------------------------------------------------ *)

RECURSIVE SumSeq(_)
SumSeq(s) == IF s = <<>> THEN 0 ELSE Head(s) + SumSeq(Tail(s))

Abs(n) == IF n < 0 THEN 0 - n ELSE n

Min(a, b) == IF a < b THEN a ELSE b

Max(a, b) == IF a > b THEN a ELSE b

RECURSIVE Flatten(_)
Flatten(ss) == IF ss = <<>> THEN <<>> ELSE Head(ss) \o Flatten(Tail(ss))

\* every OrderItem row, in insertion order
AllOrderItems(os) == Flatten([i \in 1..Len(os) |-> os[i].items])

\* uuid4 primary keys: a value no existing row carries
NewOrderItemId(os) == Len(AllOrderItems(os)) + 1

NewOrderId(os) == Len(os) + 1

(* ------------------------------------------------------------------ *)
(* transaction_id text                                                *)
(* ------------------------------------------------------------------ *)

DigitChars == <<"0", "1", "2", "3", "4", "5", "6", "7", "8", "9">>

ReturnPrefix == <<"R", "E", "T", "U", "R", "N", "_">>

\* str(n) for n >= 0
RECURSIVE Str(_)
Str(n) == IF n < 10 THEN <<DigitChars[n + 1]>>
          ELSE Str(n \div 10) \o <<DigitChars[(n % 10) + 1]>>

DigitValue(c) == (CHOOSE i \in 1..10 : DigitChars[i] = c) - 1

\* transaction_id REGEXP '^[0-9]+$'
IsNumericId(t) ==
    /\ Len(t) > 0
    /\ \A i \in 1..Len(t) : \E d \in 1..10 : DigitChars[d] = t[i]

\* cast(transaction_id, Integer) of a numeric id
RECURSIVE CastInteger(_)
CastInteger(t) ==
    IF t = <<>> THEN 0
    ELSE CastInteger(SubSeq(t, 1, Len(t) - 1)) * 10 + DigitValue(t[Len(t)])

\* t LIKE '<prefix>%', where "_" in the pattern stands for any one character
LikePrefix(t, prefix) ==
    /\ Len(t) >= Len(prefix)
    /\ \A i \in 1..Len(prefix) : prefix[i] = "_" \/ prefix[i] = t[i]

\* the numbering without the floor of 999
NextTransactionIdUnfloored(os) ==
    LET numeric == {CastInteger(os[i].transaction_id) :
                       i \in {j \in 1..Len(os) : IsNumericId(os[j].transaction_id)}}
    IN Str((IF numeric = {} THEN 0
            ELSE CHOOSE m \in numeric : \A k \in numeric : k <= m) + 1)

\* max(cast(transaction_id)) over the numeric ids, or 0; then max(.., 999) + 1
NextTransactionId(os) ==
    LET numeric == {CastInteger(os[i].transaction_id) :
                       i \in {j \in 1..Len(os) : IsNumericId(os[j].transaction_id)}}
        last_numeric_id == IF numeric = {} THEN 0
                           ELSE CHOOSE m \in numeric : \A k \in numeric : k <= m
    IN Str(Max(last_numeric_id, 999) + 1)

ReturnTransactionId(original, n) == ReturnPrefix \o original \o <<"_">> \o Str(n)

(* ------------------------------------------------------------------ *)
(* Pricing                                                            *)
(* ------------------------------------------------------------------ *)

\* variant: a category discount of 0 also overrides the item-size discount
EffectiveDiscountWhenSet(item_size, category) ==
    IF ~IsNone(category) /\ ~IsNone(Val(category).discount)
    THEN Val(Val(category).discount)
    ELSE IF IsNone(item_size.discount) THEN 0 ELSE Val(item_size.discount)

\* category discount when set and > 0, else the item-size discount or 0
EffectiveDiscount(item_size, category) ==
    IF /\ ~IsNone(category)
       /\ ~IsNone(Val(category).discount)
       /\ Val(Val(category).discount) > 0
    THEN Val(Val(category).discount)
    ELSE IF IsNone(item_size.discount) THEN 0 ELSE Val(item_size.discount)

\* price * (1 - discount / 100.0) * quantity, in hundredths
LineAmount(price, discount, quantity) == price * (100 - discount) * quantity

(* ------------------------------------------------------------------ *)
(* Session (app/db/db.py)                                             *)
(* ------------------------------------------------------------------ *)

\* db.commit(): the session's pending rows become the committed tables
Commit(committed, pending) == pending

\* variant: the pending rows survive a close without commit
SessionCloseKeepsPending(committed, pending) == pending

\* get_db's finally: db.close() without a commit discards the pending rows
SessionClose(committed, pending) == committed

\* Shopper.customer_code == code, first row
ShopperByCode(code) == IF code = "C1" THEN Some(1) ELSE None

\* refund_allocation of a response that reports none
NoRefund ==
    [refund_method |-> "cash", applied_to_dues |-> 0, cash_refund |-> 0,
     added_to_advance |-> 0]

\* a handler's outcome: the HTTP status, the session's tables when it stopped,
\* the number of returned items and the refund_allocation the response lists
Ok(status, db, returned) ==
    [status |-> status, detail |-> "", db |-> db, returned |-> returned, line |-> 0,
     refund |-> NoRefund]

\* raise HTTPException(status, detail) while handling the line-th entry of the
\* request (0: before any entry)
Raise(status, detail, db, line) ==
    [status |-> status, detail |-> detail, db |-> db, returned |-> 0, line |-> line,
     refund |-> NoRefund]

(* ------------------------------------------------------------------ *)
(* Sale: POST /cashier/orders                                         *)
(* ------------------------------------------------------------------ *)

\* loop state of the per-line loop: session tables, running total, OrderItems
SaleLoopState(db, total, order_items, status) ==
    [db |-> db, total |-> total, order_items |-> order_items, status |-> status]

\* one pass of "for item_data in order.items"
SaleLine(st, item_data, cats) ==
    LET key == <<item_data.item_id, item_data.size_label>> IN
    IF key \notin SizeKeys \/ ~st.db.sizes[key].present
    THEN [st EXCEPT !.status = 404]
    ELSE
    LET item_size == st.db.sizes[key] IN
    IF item_size.stock < item_data.quantity
    THEN [st EXCEPT !.status = 400]
    ELSE
    LET effective_discount == EffectiveDiscount(item_size, cats[item_data.item_id])
        order_item == OrderItem(0, item_data.item_id, item_data.size_label,
                                item_data.quantity, item_size.price,
                                effective_discount)
        \* order_item.id is still None here: the uuid default is applied at flush
        row == InventoryHistory(item_data.item_id, 0 - item_data.quantity, "sale",
                                Description("Sale via cashier. Order Item ID: {}",
                                            None, None, NoText))
    IN [st EXCEPT
          !.total = @ + LineAmount(item_size.price, effective_discount,
                                   item_data.quantity),
          !.order_items = Append(@, order_item),
          !.db.sizes[key].stock = @ - item_data.quantity,
          !.db.history = Append(@, row)]

RECURSIVE SaleLines(_, _, _)
SaleLines(st, items, cats) ==
    IF items = <<>> \/ st.status # 0 THEN st
    ELSE SaleLines(SaleLine(st, Head(items), cats), Tail(items), cats)

\* db.flush(): the new OrderItems get their primary keys
FlushOrderItems(order_items, first_id) ==
    [i \in 1..Len(order_items) |-> [order_items[i] EXCEPT !.id = first_id + i - 1]]

CreateOrder(db, cats, order) ==
    LET shopper == ShopperByCode(order.customer_code) IN
    IF order.customer_code # "" /\ IsNone(shopper)
    THEN Raise(404, "Shopper not found", db, 0)
    ELSE
    LET shopper_id == IF order.customer_code # "" THEN shopper ELSE None
        st == SaleLines(SaleLoopState(db, 0, <<>>, 0), order.items, cats)
    IN
    IF st.status # 0
    THEN Raise(st.status,
               IF st.status = 404 THEN "Item and size not found" ELSE "Not enough stock",
               st.db, Len(st.order_items) + 1)
    ELSE
    LET next_transaction_id == NextTransactionId(db.orders)
        new_order == Order(NewOrderId(db.orders), next_transaction_id, st.total,
                           shopper_id,
                           FlushOrderItems(st.order_items, NewOrderItemId(db.orders)))
        withOrder == [st.db EXCEPT !.orders = Append(@, new_order)]
        withDue == IF ~IsNone(shopper_id) /\ ~order.is_paid
                   THEN [withOrder EXCEPT
                           !.dues = Append(@, Due(Val(shopper_id), Some(new_order.id),
                                                  st.total))]
                   ELSE withOrder
    IN Ok(201, Commit(db, withDue), 0)

(* ------------------------------------------------------------------ *)
(* Enhanced sale: POST /cashier/orders/enhanced                       *)
(* ------------------------------------------------------------------ *)

\* variant: a category discount of 0 overrides the size's discount
EnhancedSaleLineCategoryFirst(st, item_data, cats) ==
    LET key == <<item_data.item_id, item_data.size_label>> IN
    IF key \notin SizeKeys \/ ~st.db.sizes[key].present
    THEN [st EXCEPT !.status = 404]
    ELSE
    LET item_size == st.db.sizes[key] IN
    IF item_size.stock < item_data.quantity
    THEN [st EXCEPT !.status = 400]
    ELSE
    LET category_obj == cats[item_data.item_id]
        category_discount == IF IsNone(category_obj) THEN None
                             ELSE Val(category_obj).discount
        effective_discount ==
            IF ~IsNone(category_discount) THEN Val(category_discount)
            ELSE IF IsNone(item_size.discount) THEN 0 ELSE Val(item_size.discount)
        order_item == OrderItem(0, item_data.item_id, item_data.size_label,
                                item_data.quantity, item_size.price,
                                effective_discount)
        row == InventoryHistory(item_data.item_id, 0 - item_data.quantity, "sale",
                                Description("Sale via cashier. Order Item ID: {}",
                                            None, None, NoText))
    IN [st EXCEPT
          !.total = @ + item_size.price * (100 - effective_discount) * item_data.quantity,
          !.order_items = Append(@, order_item),
          !.db.sizes[key].stock = @ - item_data.quantity,
          !.db.history = Append(@, row)]

\* one pass of the enhanced endpoint's own "for item_data in order.items"
EnhancedSaleLine(st, item_data, cats) ==
    LET key == <<item_data.item_id, item_data.size_label>> IN
    IF key \notin SizeKeys \/ ~st.db.sizes[key].present
    THEN [st EXCEPT !.status = 404]
    ELSE
    LET item_size == st.db.sizes[key] IN
    IF item_size.stock < item_data.quantity
    THEN [st EXCEPT !.status = 400]
    ELSE
    LET category_obj == cats[item_data.item_id]
        category_discount == IF IsNone(category_obj) THEN None
                             ELSE Val(category_obj).discount
        effective_discount ==
            IF ~IsNone(category_discount) /\ Val(category_discount) > 0
            THEN Val(category_discount)
            ELSE IF IsNone(item_size.discount) THEN 0 ELSE Val(item_size.discount)
        price_after_discount == item_size.price * (100 - effective_discount)
        order_item == OrderItem(0, item_data.item_id, item_data.size_label,
                                item_data.quantity, item_size.price,
                                effective_discount)
        row == InventoryHistory(item_data.item_id, 0 - item_data.quantity, "sale",
                                Description("Sale via cashier. Order Item ID: {}",
                                            None, None, NoText))
    IN [st EXCEPT
          !.total = @ + price_after_discount * item_data.quantity,
          !.order_items = Append(@, order_item),
          !.db.sizes[key].stock = @ - item_data.quantity,
          !.db.history = Append(@, row)]

RECURSIVE EnhancedSaleLines(_, _, _)
EnhancedSaleLines(st, items, cats) ==
    IF items = <<>> \/ st.status # 0 THEN st
    ELSE EnhancedSaleLines(EnhancedSaleLine(st, Head(items), cats), Tail(items), cats)

\* variant: only the sum of the breakdown is checked
PaymentDuesSumChecked(ds, shopper_id, order_id, total, payment_amount, payment_breakdown) ==
    LET b == payment_breakdown
        paid == IF b.dues_payment > 0
                THEN Append(ds, Due(shopper_id, Some(order_id), 0 - b.dues_payment))
                ELSE ds
        owed == IF b.remaining_order_balance > 0
                THEN Append(paid, Due(shopper_id, Some(order_id),
                                      b.remaining_order_balance))
                ELSE paid
        advanced == IF b.advance_payment > 0
                    THEN Append(owed, Due(shopper_id, Some(order_id),
                                          0 - b.advance_payment))
                    ELSE owed
    IN IF Abs(b.order_payment + b.dues_payment + b.advance_payment - payment_amount) > 1
       THEN [detail |-> "Payment breakdown does not match payment amount", dues |-> ds]
       ELSE [detail |-> "", dues |-> advanced]

\* the Due rows of an accepted payment_breakdown, or the check that rejects it
\* (amounts in hundredths, so the 0.01 tolerance is 1)
PaymentDues(ds, shopper_id, order_id, total, payment_amount, payment_breakdown) ==
    LET order_payment == payment_breakdown.order_payment
        dues_payment == payment_breakdown.dues_payment
        advance_payment == payment_breakdown.advance_payment
        remaining_dues == payment_breakdown.remaining_dues
        remaining_order_balance == payment_breakdown.remaining_order_balance
        total_allocated == order_payment + dues_payment + advance_payment
        total_previous_dues ==
            SumSeq([i \in 1..Len(ds) |->
                      IF ds[i].shopper_id = shopper_id THEN ds[i].amount ELSE 0])
        paid == IF dues_payment > 0
                THEN Append(ds, Due(shopper_id, Some(order_id), 0 - dues_payment))
                ELSE ds
        owed == IF remaining_order_balance > 0
                THEN Append(paid, Due(shopper_id, Some(order_id),
                                      remaining_order_balance))
                ELSE paid
        advanced == IF advance_payment > 0
                    THEN Append(owed, Due(shopper_id, Some(order_id),
                                          0 - advance_payment))
                    ELSE owed
    IN IF Abs(total_allocated - payment_amount) > 1
       THEN [detail |-> "Payment breakdown does not match payment amount", dues |-> ds]
       ELSE IF Abs(remaining_dues - Max(0, total_previous_dues - dues_payment)) > 1
       THEN [detail |-> "Remaining dues calculation is inconsistent", dues |-> ds]
       ELSE IF Abs(remaining_order_balance - Max(0, total - order_payment)) > 1
       THEN [detail |-> "Remaining order balance calculation is inconsistent",
             dues |-> ds]
       ELSE [detail |-> "", dues |-> advanced]

CreateEnhancedOrder(db, cats, order) ==
    LET shopper == ShopperByCode(order.customer_code) IN
    IF order.customer_code # "" /\ IsNone(shopper)
    THEN Raise(404, "Shopper not found", db, 0)
    ELSE
    LET shopper_id == IF order.customer_code # "" THEN shopper ELSE None
        st == EnhancedSaleLines(SaleLoopState(db, 0, <<>>, 0), order.items, cats)
    IN
    IF st.status # 0
    THEN Raise(st.status,
               IF st.status = 404 THEN "Item and size not found" ELSE "Not enough stock",
               st.db, Len(st.order_items) + 1)
    ELSE
    LET next_transaction_id == NextTransactionId(db.orders)
        new_order == Order(NewOrderId(db.orders), next_transaction_id, st.total,
                           shopper_id,
                           FlushOrderItems(st.order_items, NewOrderItemId(db.orders)))
        withOrder == [st.db EXCEPT !.orders = Append(@, new_order)]
    IN
    IF /\ ~IsNone(shopper_id)
       /\ ~IsNone(order.payment_amount)
       /\ ~IsNone(order.payment_breakdown)
    THEN
        LET payment == PaymentDues(withOrder.dues, Val(shopper_id), new_order.id,
                                   st.total, Val(order.payment_amount),
                                   Val(order.payment_breakdown))
        IN IF payment.detail # "" THEN Raise(400, payment.detail, withOrder, 0)
           ELSE Ok(201, Commit(db, [withOrder EXCEPT !.dues = payment.dues]), 0)
    ELSE IF ~IsNone(shopper_id) /\ ~order.is_paid
    THEN Ok(201,
            Commit(db, [withOrder EXCEPT
                          !.dues = Append(@, Due(Val(shopper_id), Some(new_order.id),
                                                 st.total))]),
            0)
    ELSE Ok(201, Commit(db, withOrder), 0)

(* ------------------------------------------------------------------ *)
(* Balance ledger                                                     *)
(* ------------------------------------------------------------------ *)

Balances(dues_balance, advance_balance) ==
    [dues_balance |-> dues_balance, advance_balance |-> advance_balance]

\* variant: a credit is reported as a negative dues balance
ComputeBalancesUnsigned(ds, shopper_id) ==
    IF IsNone(shopper_id) THEN Balances(0, 0)
    ELSE Balances(SumSeq([i \in 1..Len(ds) |->
                            IF ds[i].shopper_id = Val(shopper_id) THEN ds[i].amount
                            ELSE 0]),
                  0)

\* _compute_balances
ComputeBalances(ds, shopper_id) ==
    IF IsNone(shopper_id) THEN Balances(0, 0)
    ELSE
    LET mine == {i \in 1..Len(ds) : ds[i].shopper_id = Val(shopper_id)}
        total == SumSeq([i \in 1..Len(ds) |-> IF i \in mine THEN ds[i].amount ELSE 0])
    IN IF total > 0 THEN Balances(total, 0)
       ELSE IF total < 0 THEN Balances(0, 0 - total)
       ELSE Balances(0, 0)

(* ------------------------------------------------------------------ *)
(* Return: POST /cashier/orders/{order_id}/returns                    *)
(* ------------------------------------------------------------------ *)

\* description LIKE '%Return%Order Item ID: <id>%'
LikeReturnOfOrderItem(description, id) ==
    \/ /\ description.fmt \in
            {"Return: {}. Order Item ID: {}. Returned entire order. Returned {} of size {}",
             "Return: {}. Order Item ID: {}. Returned {} of size {}"}
       /\ \/ description.order_item = Some(id)
          \/ id \in description.reason.names
    \/ /\ description.fmt = "Return: {}. Entire Order ID: {}. Returned {} items."
       /\ id \in description.reason.names

\* description LIKE '%Return%Entire Order ID: <id>%'
LikeReturnOfEntireOrder(description, id) ==
    /\ description.fmt = "Return: {}. Entire Order ID: {}. Returned {} items."
    /\ description.order = Some(id)

\* sum([abs(hist.change) for hist in existing_returns]); the first query of the
\* handler has no item_id filter, the later ones have
TotalReturned(hist, order_item, by_item) ==
    SumSeq([i \in 1..Len(hist) |->
              IF /\ by_item => hist[i].item_id = order_item.item_id
                 /\ LikeReturnOfOrderItem(hist[i].description, order_item.id)
              THEN Abs(hist[i].change) ELSE 0])

\* variant: the pattern without its trailing %
ReturnOrdersExact(os, order) ==
    {i \in 1..Len(os) : os[i].transaction_id = ReturnPrefix \o order.transaction_id}

\* Order.transaction_id LIKE 'RETURN_<transaction_id>%'
ReturnOrdersOf(os, order) ==
    {i \in 1..Len(os) :
        LikePrefix(os[i].transaction_id, ReturnPrefix \o order.transaction_id)}

ReturnedItem(order_item, quantity) ==
    [order_item_id |-> order_item.id, quantity |-> quantity,
     size_label |-> order_item.size_label,
     price_at_purchase |-> order_item.price_at_purchase,
     discount_applied |-> order_item.discount_applied]

ReturnLoopState(db, returned_items, return_order_items, total, status) ==
    [db |-> db, returned_items |-> returned_items,
     return_order_items |-> return_order_items, total |-> total, status |-> status]

\* variant: a line whose size is gone is passed over
RestockLineSkippingMissing(st, order_item, quantity, fmt, reason) ==
    LET key == <<order_item.item_id, order_item.size_label>> IN
    IF key \notin SizeKeys \/ ~st.db.sizes[key].present
    THEN st
    ELSE
    LET row == InventoryHistory(order_item.item_id, quantity, "correction",
                                Description(fmt, Some(order_item.id), None, reason))
        negative == OrderItem(0, order_item.item_id, order_item.size_label,
                              0 - quantity, order_item.price_at_purchase,
                              order_item.discount_applied)
    IN [st EXCEPT
          !.db.sizes[key].stock = @ + quantity,
          !.db.history = Append(@, row),
          !.return_order_items = Append(@, negative),
          !.returned_items = Append(@, ReturnedItem(order_item, quantity)),
          !.total = @ + LineAmount(order_item.price_at_purchase,
                                   order_item.discount_applied, quantity)]

\* variant: the refund is priced from the catalog as it stands at the return
RestockLineAtCatalogPrice(st, order_item, quantity, fmt, reason) ==
    LET key == <<order_item.item_id, order_item.size_label>> IN
    IF key \notin SizeKeys \/ ~st.db.sizes[key].present
    THEN [st EXCEPT !.status = 404]
    ELSE
    LET item_size == st.db.sizes[key]
        discount == IF IsNone(item_size.discount) THEN 0 ELSE Val(item_size.discount)
        row == InventoryHistory(order_item.item_id, quantity, "correction",
                                Description(fmt, Some(order_item.id), None, reason))
        negative == OrderItem(0, order_item.item_id, order_item.size_label,
                              0 - quantity, item_size.price, discount)
    IN [st EXCEPT
          !.db.sizes[key].stock = @ + quantity,
          !.db.history = Append(@, row),
          !.return_order_items = Append(@, negative),
          !.returned_items = Append(@, ReturnedItem(order_item, quantity)),
          !.total = @ + LineAmount(item_size.price, discount, quantity)]

\* stock += quantity, the correction row, the negative OrderItem
RestockLine(st, order_item, quantity, fmt, reason) ==
    LET key == <<order_item.item_id, order_item.size_label>> IN
    IF key \notin SizeKeys \/ ~st.db.sizes[key].present
    THEN [st EXCEPT !.status = 404]
    ELSE
    LET row == InventoryHistory(order_item.item_id, quantity, "correction",
                                Description(fmt, Some(order_item.id), None, reason))
        negative == OrderItem(0, order_item.item_id, order_item.size_label,
                              0 - quantity, order_item.price_at_purchase,
                              order_item.discount_applied)
    IN [st EXCEPT
          !.db.sizes[key].stock = @ + quantity,
          !.db.history = Append(@, row),
          !.return_order_items = Append(@, negative),
          !.returned_items = Append(@, ReturnedItem(order_item, quantity)),
          !.total = @ + LineAmount(order_item.price_at_purchase,
                                   order_item.discount_applied, quantity)]

\* refund first against the shopper's dues, the rest as cash or advance credit
AllocateRefund(ds, shopper_id, return_order_id, total_return_amount, refund_method) ==
    LET balances_before == ComputeBalances(ds, shopper_id)
        applied_to_dues ==
            IF ~IsNone(shopper_id) /\ balances_before.dues_balance > 0
            THEN Min(total_return_amount, balances_before.dues_balance) ELSE 0
        remaining == total_return_amount - applied_to_dues
        withApplied ==
            IF ~IsNone(shopper_id) /\ applied_to_dues > 0
            THEN Append(ds, Due(Val(shopper_id), Some(return_order_id),
                                0 - applied_to_dues))
            ELSE ds
        toAdvance == ~IsNone(shopper_id) /\ remaining > 0 /\ refund_method = "advance"
    IN [dues |-> IF toAdvance
                 THEN Append(withApplied, Due(Val(shopper_id), Some(return_order_id),
                                              0 - remaining))
                 ELSE withApplied,
        applied_to_dues |-> applied_to_dues,
        cash_refund |-> IF IsNone(shopper_id) THEN total_return_amount
                        ELSE IF remaining > 0 /\ ~toAdvance THEN remaining ELSE 0,
        added_to_advance |-> IF toAdvance THEN remaining ELSE 0]

\* the reversal order, its items and the refund rows (after the per-line loop)
ReturnOrder(committed, st, order, total_return_amount, refund_method) ==
    LET existing_returns_count == Cardinality(ReturnOrdersOf(committed.orders, order))
        return_txn_id == ReturnTransactionId(order.transaction_id,
                                             existing_returns_count + 1)
        return_order == Order(NewOrderId(committed.orders), return_txn_id,
                              0 - total_return_amount, order.shopper_id,
                              FlushOrderItems(st.return_order_items,
                                              NewOrderItemId(committed.orders)))
        alloc == AllocateRefund(st.db.dues, order.shopper_id, return_order.id,
                                total_return_amount, refund_method)
    IN [st.db EXCEPT !.orders = Append(@, return_order), !.dues = alloc.dues]

\* "refund_allocation" of the return's receipt
RefundAllocation(committed, st, order, total_return_amount, refund_method) ==
    LET alloc == AllocateRefund(st.db.dues, order.shopper_id,
                                NewOrderId(committed.orders), total_return_amount,
                                refund_method)
    IN [refund_method |-> IF refund_method = "advance" THEN "advance" ELSE "cash",
        applied_to_dues |-> alloc.applied_to_dues, cash_refund |-> alloc.cash_refund,
        added_to_advance |-> alloc.added_to_advance]

\* variant: the refund total at the undiscounted price
FullReturnAmountUndiscounted(return_order_items) ==
    SumSeq([i \in 1..Len(return_order_items) |->
              LineAmount(return_order_items[i].price_at_purchase, 0,
                         Abs(return_order_items[i].quantity))])

\* total_return_amount of the full-order path, from the negative OrderItems
FullReturnAmount(return_order_items) ==
    SumSeq([i \in 1..Len(return_order_items) |->
              LineAmount(return_order_items[i].price_at_purchase,
                         return_order_items[i].discount_applied,
                         Abs(return_order_items[i].quantity))])

\* "for order_item in order.items" of the full-order path; the history query
\* reads the committed rows (autoflush is off and nothing is flushed yet)
RECURSIVE FullReturnLines(_, _, _, _)
FullReturnLines(st, committed, items, reason) ==
    IF items = <<>> \/ st.status # 0 THEN st
    ELSE
    LET order_item == Head(items)
        total_item_returned == TotalReturned(committed.history, order_item, TRUE)
        quantity_to_return == order_item.quantity - total_item_returned
        next == IF quantity_to_return > 0
                THEN RestockLine(st, order_item, quantity_to_return,
                       "Return: {}. Order Item ID: {}. Returned entire order. Returned {} of size {}",
                       reason)
                ELSE st
    IN FullReturnLines(next, committed, Tail(items), reason)

FullOrderReturn(db, order, return_request) ==
    IF \E i \in 1..Len(db.history) :
          LikeReturnOfEntireOrder(db.history[i].description, order.id)
    THEN Raise(400, "This order has already been returned", db, 0)
    ELSE
    LET st == FullReturnLines(ReturnLoopState(db, <<>>, <<>>, 0, 0), db,
                              order.items, return_request.reason)
    IN
    IF st.status # 0
    THEN Raise(st.status, "Item size not found", st.db, Len(st.returned_items) + 1)
    ELSE IF st.returned_items = <<>> THEN Ok(200, Commit(db, st.db), 0)
    ELSE
    LET withOrder == ReturnOrder(db, st, order, FullReturnAmount(st.return_order_items),
                                 return_request.refund_method)
        marker == InventoryHistory(order.items[1].item_id, 0, "correction",
                    Description("Return: {}. Entire Order ID: {}. Returned {} items.",
                                None, Some(order.id), return_request.reason))
        withMarker == [withOrder EXCEPT !.history = Append(@, marker)]
    IN [Ok(200, Commit(db, withMarker), Len(st.returned_items)) EXCEPT
          !.refund = RefundAllocation(db, st, order,
                                      FullReturnAmount(st.return_order_items),
                                      return_request.refund_method)]

\* OrderItem.id == item_id and OrderItem.order_id == order_id, first row
OrderItemOf(order, item_id) ==
    LET hits == {i \in 1..Len(order.items) : order.items[i].id = item_id}
    IN IF hits = {} THEN None ELSE Some(order.items[CHOOSE i \in hits : TRUE])

\* variant: only the first entry is validated
ValidateFirstOnly(db, order, item_returns, line) ==
    IF item_returns = <<>> THEN [status |-> 0, line |-> 0]
    ELSE
    LET request == Head(item_returns)
        hits == {i \in 1..Len(order.items) : order.items[i].id = request.item_id}
    IN
    IF hits = {} THEN [status |-> 404, line |-> line]
    ELSE LET found == order.items[CHOOSE i \in hits : TRUE] IN
         IF request.quantity > found.quantity - TotalReturned(db.history, found, TRUE)
         THEN [status |-> 400, line |-> line]
         ELSE [status |-> 0, line |-> 0]

\* "Validate all items first": the status raised and the entry that raised it,
\* or status 0 when every entry passes
RECURSIVE ValidateReturns(_, _, _, _)
ValidateReturns(db, order, item_returns, line) ==
    IF item_returns = <<>> THEN [status |-> 0, line |-> 0]
    ELSE
    LET request == Head(item_returns)
        found == OrderItemOf(order, request.item_id)
    IN
    IF IsNone(found) THEN [status |-> 404, line |-> line]
    ELSE IF request.quantity >
              Val(found).quantity - TotalReturned(db.history, Val(found), TRUE)
    THEN [status |-> 400, line |-> line]
    ELSE ValidateReturns(db, order, Tail(item_returns), line + 1)

\* "Process all valid returns"
RECURSIVE PartialReturnLines(_, _, _, _)
PartialReturnLines(st, order, item_returns, reason) ==
    IF item_returns = <<>> \/ st.status # 0 THEN st
    ELSE
    LET request == Head(item_returns)
        found == OrderItemOf(order, request.item_id)
        next == IF IsNone(found) THEN st
                ELSE RestockLine(st, Val(found), request.quantity,
                                 "Return: {}. Order Item ID: {}. Returned {} of size {}",
                                 reason)
    IN PartialReturnLines(next, order, Tail(item_returns), reason)

PartialReturn(db, order, return_request) ==
    LET invalid == ValidateReturns(db, order, return_request.item_returns, 1) IN
    IF invalid.status # 0
    THEN Raise(invalid.status,
               IF invalid.status = 404 THEN "Item not found in order"
               ELSE "Return quantity exceeds remaining purchased quantity",
               db, invalid.line)
    ELSE
    LET st == PartialReturnLines(ReturnLoopState(db, <<>>, <<>>, 0, 0), order,
                                 return_request.item_returns, return_request.reason)
    IN
    IF st.status # 0
    THEN Raise(st.status, "Item size not found", st.db, Len(st.returned_items) + 1)
    ELSE IF st.returned_items = <<>> THEN Ok(200, Commit(db, st.db), 0)
    ELSE [Ok(200,
             Commit(db, ReturnOrder(db, st, order, st.total,
                                    return_request.refund_method)),
             Len(st.returned_items)) EXCEPT
            !.refund = RefundAllocation(db, st, order, st.total,
                                        return_request.refund_method)]

\* variant: a line counts as returned only once more than its quantity is back
AlreadyFullyReturnedStrict(db, order) ==
    /\ ReturnOrdersOf(db.orders, order) # {}
    /\ \A i \in 1..Len(order.items) :
          ~(TotalReturned(db.history, order.items[i], FALSE) <= order.items[i].quantity)

\* the guard in front of both paths: a return order exists and no line is left
AlreadyFullyReturned(db, order) ==
    /\ ReturnOrdersOf(db.orders, order) # {}
    /\ \A i \in 1..Len(order.items) :
          ~(TotalReturned(db.history, order.items[i], FALSE) < order.items[i].quantity)

ProcessReturn(db, order_id, return_request) ==
    IF order_id \notin 1..Len(db.orders) THEN Raise(404, "Order not found", db, 0)
    ELSE
    LET order == db.orders[order_id] IN
    IF AlreadyFullyReturned(db, order)
    THEN Raise(400, "This order has already been fully returned and cannot be updated further",
               db, 0)
    ELSE IF return_request.return_full_order
    THEN FullOrderReturn(db, order, return_request)
    ELSE IF return_request.item_returns # <<>>
    THEN PartialReturn(db, order, return_request)
    ELSE Raise(400, "Either return_full_order must be true or item_returns must be provided",
               db, 0)

(* ------------------------------------------------------------------ *)
(* Admin: POST /admin/inventory/restock/ and PUT /admin/items/{id}    *)
(* ------------------------------------------------------------------ *)

RestockItem(db, restock) ==
    LET key == <<restock.item_id, restock.size_label>> IN
    IF restock.item_id \notin ItemIds THEN Raise(404, "Item not found", db, 0)
    ELSE IF key \notin SizeKeys \/ ~db.sizes[key].present
    THEN Raise(404, "Size not found for this item", db, 0)
    ELSE
    LET row == InventoryHistory(restock.item_id, restock.quantity, "restock",
                                Description("{}", None, None, restock.description))
    IN Ok(200,
          Commit(db, [db EXCEPT !.sizes[key].stock = @ + restock.quantity,
                                !.history = Append(@, row)]),
          0)

UpdateLoopState(db, status) == [db |-> db, status |-> status]

\* one pass of "for size_update in item_update.sizes"; existing_sizes is the
\* item's sizes when the handler started
UpdateSize(st, item_id, existing_sizes, size_update) ==
    IF ~IsNone(size_update.id)
    THEN
        LET key == <<item_id, Val(size_update.id)>> IN
        IF Val(size_update.id) \notin existing_sizes THEN [st EXCEPT !.status = 400]
        ELSE
        LET db_size == st.db.sizes[key]
            new_stock == IF IsNone(size_update.stock) THEN db_size.stock
                         ELSE Val(size_update.stock)
            stock_change == new_stock - db_size.stock
            row == InventoryHistory(item_id, stock_change, "correction",
                                    Description("Correction: {}", None, None,
                                                size_update.correction_reason))
        IN [st EXCEPT
              !.db.history = IF stock_change # 0 THEN Append(@, row) ELSE @,
              !.db.sizes[key] =
                  [@ EXCEPT !.stock = new_stock,
                            !.price = size_update.price,
                            !.discount = IF IsNone(size_update.discount) THEN @
                                         ELSE size_update.discount]]
    ELSE
        LET key == <<item_id, size_update.size_label>>
            stock == IF IsNone(size_update.stock) THEN 0 ELSE Val(size_update.stock)
            row == InventoryHistory(item_id, stock, "restock",
                                    Description("Initial stock for new size", None, None,
                                                NoText))
        IN [st EXCEPT
              !.db.sizes[key] = ItemSize(size_update.price, size_update.discount, stock),
              !.db.history = IF stock > 0 THEN Append(@, row) ELSE @]

RECURSIVE UpdateSizes(_, _, _, _)
UpdateSizes(st, item_id, existing_sizes, size_updates) ==
    IF size_updates = <<>> \/ st.status # 0 THEN st
    ELSE UpdateSizes(UpdateSize(st, item_id, existing_sizes, Head(size_updates)),
                     item_id, existing_sizes, Tail(size_updates))

\* one pass of "for size_id in item_update.sizes_to_delete"
DeleteSize(st, item_id, existing_sizes, size_id) ==
    IF size_id \notin existing_sizes THEN [st EXCEPT !.status = 400]
    ELSE
    LET key == <<item_id, size_id>>
        size_to_delete == st.db.sizes[key]
        row == InventoryHistory(item_id, 0 - size_to_delete.stock, "correction",
                                Description("Stock removed due to size deletion: {}",
                                            None, None, NoText))
    IN [st EXCEPT
          !.db.history = IF size_to_delete.stock > 0 THEN Append(@, row) ELSE @,
          !.db.sizes[key] = NoSize]

RECURSIVE DeleteSizes(_, _, _, _)
DeleteSizes(st, item_id, existing_sizes, size_ids) ==
    IF size_ids = <<>> \/ st.status # 0 THEN st
    ELSE DeleteSizes(DeleteSize(st, item_id, existing_sizes, Head(size_ids)),
                     item_id, existing_sizes, Tail(size_ids))

\* update_data: the item's own fields; only category_id matters to the engine
UpdateItemFields(item, item_update) ==
    IF item_update.category_id = <<>> THEN item
    ELSE [item EXCEPT !.category_id = item_update.category_id[1]]

\* PUT /admin/categories/{id}: setattr for every field the request sets
UpdateCategory(category, category_update) ==
    IF category_update.discount = <<>> THEN category
    ELSE [category EXCEPT !.discount = category_update.discount[1]]

\* variant: the Due rows of the item's orders are deleted with the item
DeleteItemWithDues(db, item_id) ==
    IF item_id \notin ItemIds THEN Raise(404, "Item not found", db, 0)
    ELSE
    LET sold == {db.orders[i].id :
                   i \in {j \in 1..Len(db.orders) :
                             \E k \in 1..Len(db.orders[j].items) :
                                db.orders[j].items[k].item_id = item_id}}
        deleted ==
          [db EXCEPT
             !.history = SelectSeq(@, LAMBDA row : row.item_id # item_id),
             !.orders = [i \in 1..Len(@) |->
                           [@[i] EXCEPT
                              !.items = SelectSeq(@, LAMBDA order_item :
                                                       order_item.item_id # item_id)]],
             !.dues = SelectSeq(@, LAMBDA due :
                                     due.order_id = None \/ due.order_id[1] \notin sold),
             !.sizes = [k \in SizeKeys |-> IF k[1] = item_id THEN NoSize ELSE @[k]]]
    IN Ok(204, Commit(db, deleted), 0)

\* DELETE /admin/items/{id}: the item's history rows, order lines and sizes
\* are deleted with it
DeleteItem(db, item_id) ==
    IF item_id \notin ItemIds THEN Raise(404, "Item not found", db, 0)
    ELSE
    LET deleted ==
          [db EXCEPT
             !.history = SelectSeq(@, LAMBDA row : row.item_id # item_id),
             !.orders = [i \in 1..Len(@) |->
                           [@[i] EXCEPT
                              !.items = SelectSeq(@, LAMBDA order_item :
                                                       order_item.item_id # item_id)]],
             !.sizes = [k \in SizeKeys |-> IF k[1] = item_id THEN NoSize ELSE @[k]]]
    IN Ok(204, Commit(db, deleted), 0)

\* POST /shoppers/{customer_code}/transactions: one Due row, of any sign
AddDueOrPayment(db, customer_code, due) ==
    LET db_shopper == ShopperByCode(customer_code) IN
    IF IsNone(db_shopper) THEN Raise(404, "Shopper not found", db, 0)
    ELSE Ok(201, Commit(db, [db EXCEPT !.dues = Append(@, Due(Val(db_shopper), None,
                                                               due.amount))]),
            0)

UpdateItem(db, item_id, item_update) ==
    IF item_id \notin ItemIds THEN Raise(404, "Item not found", db, 0)
    ELSE
    LET existing_sizes == {l \in SizeLabels :
                              <<item_id, l>> \in SizeKeys /\ db.sizes[<<item_id, l>>].present}
        updated == UpdateSizes(UpdateLoopState(db, 0), item_id, existing_sizes,
                               item_update.sizes)
        deleted == DeleteSizes(updated, item_id, existing_sizes,
                               item_update.sizes_to_delete)
    IN IF deleted.status # 0
       THEN Raise(deleted.status, "Size not found for this item", deleted.db, 0)
       ELSE Ok(200, Commit(db, deleted.db), 0)

(* ------------------------------------------------------------------ *)
(* Requests                                                           *)
(* ------------------------------------------------------------------ *)

OrderItemCreate(key, quantity) ==
    [item_id |-> key[1], size_label |-> key[2], quantity |-> quantity]

SaleLineInputs == {OrderItemCreate(k, q) : k \in SizeKeys, q \in SaleQuantities}

OrderCreate(items, customer_code, is_paid) ==
    [items |-> items, customer_code |-> customer_code, is_paid |-> is_paid]

\* one line for a walk-in or for shopper C1 on credit; one unit of S paid by
\* shopper C1; one unit of S followed by any line; one request carrying an
\* unknown customer code
SaleRequests ==
    {OrderCreate(<<a>>, "", TRUE) : a \in SaleLineInputs}
    \cup {OrderCreate(<<OrderItemCreate(<<1, "S">>, 1)>>, "C1", TRUE)}
    \cup {OrderCreate(<<OrderItemCreate(<<1, "S">>, q)>>, "C1", FALSE) :
             q \in SaleQuantities}
    \cup {OrderCreate(<<OrderItemCreate(<<1, "S">>, 1), b>>, "", TRUE) :
             b \in SaleLineInputs}
    \cup {OrderCreate(<<OrderItemCreate(<<1, "S">>, 1)>>, "C9", TRUE)}

PaymentBreakdown(order_payment, dues_payment, advance_payment, remaining_dues, remaining_order_balance) ==
    [order_payment |-> order_payment, dues_payment |-> dues_payment,
     advance_payment |-> advance_payment, remaining_dues |-> remaining_dues,
     remaining_order_balance |-> remaining_order_balance]

EnhancedOrderCreate(items, customer_code, is_paid, payment_amount, payment_breakdown) ==
    [items |-> items, customer_code |-> customer_code, is_paid |-> is_paid,
     payment_amount |-> payment_amount, payment_breakdown |-> payment_breakdown]

\* one line of S without payment data, for a walk-in or on credit; one unit of S
\* with 50.00 paid toward the order, the breakdown leaving 40.00 or nothing
\* owed, or allotting only 40.00 of the 50.00; one unit of S (90.00) with
\* 100.00 paid, all of it toward the order, or 10.00 of it toward earlier dues
EnhancedSaleRequests ==
    {EnhancedOrderCreate(<<OrderItemCreate(<<1, "S">>, q)>>, "", TRUE, None, None) :
        q \in SaleQuantities}
    \cup {EnhancedOrderCreate(<<OrderItemCreate(<<1, "S">>, 1)>>, "C1", FALSE,
                              None, None)}
    \cup {EnhancedOrderCreate(<<OrderItemCreate(<<1, "S">>, 1)>>, "C1", TRUE,
                              Some(5000),
                              Some(PaymentBreakdown(5000, 0, 0, 0, r))) :
             r \in {0, 4000}}
    \cup {EnhancedOrderCreate(<<OrderItemCreate(<<1, "S">>, 1)>>, "C1", TRUE,
                              Some(5000),
                              Some(PaymentBreakdown(4000, 0, 0, 0, 5000)))}
    \cup {EnhancedOrderCreate(<<OrderItemCreate(<<1, "S">>, 1)>>, "C1", TRUE,
                              Some(10000),
                              Some(PaymentBreakdown(9000 + d, 1000 - d, 0, 0, 0))) :
             d \in {0, 1000}}

ReturnItemRequest(item_id, quantity) == [item_id |-> item_id, quantity |-> quantity]

ReturnRequest(item_returns, reason, return_full_order, refund_method) ==
    [item_returns |-> item_returns, reason |-> reason,
     return_full_order |-> return_full_order, refund_method |-> refund_method]

\* ids of the order's lines
OrderItemIds(os, order_id) ==
    IF order_id \in 1..Len(os)
    THEN {os[order_id].items[i].id : i \in 1..Len(os[order_id].items)}
    ELSE {}

\* a full-order return; one line (of the order, or an id that is no line of
\* it); one unit of a line for any of the reasons;
\* one unit of a line followed by another entry; neither mode
ReturnRequests(os, order_id) ==
    LET ids == OrderItemIds(os, order_id)
        reason == PlainReason
    IN
    {ReturnRequest(<<>>, reason, TRUE, m) : m \in {"cash", "advance"}}
    \cup {ReturnRequest(<<ReturnItemRequest(i, q)>>, reason, FALSE, "cash") :
             i \in ids \cup {NewOrderItemId(os)}, q \in ReturnQuantities}
    \cup {ReturnRequest(<<ReturnItemRequest(i, 1)>>, r, FALSE, "cash") :
             i \in ids, r \in ReasonTexts}
    \cup {ReturnRequest(<<ReturnItemRequest(i, 1), ReturnItemRequest(j, q)>>,
                        reason, FALSE, "cash") :
             i \in ids, j \in ids, q \in ReturnQuantities}
    \cup {ReturnRequest(<<>>, reason, FALSE, "cash")}

\* orders a return may name: sale orders, and an id that does not exist
ReturnableOrders(os) ==
    {i \in 1..Len(os) : IsNumericId(os[i].transaction_id)} \cup {NewOrderId(os)}

AdminText == [words |-> "stock count", names |-> {}]

RestockRequest(key, quantity) ==
    [item_id |-> key[1], size_label |-> key[2], quantity |-> quantity,
     description |-> AdminText]

RestockRequests == {RestockRequest(k, 1) : k \in SizeKeys}

ItemSizeUpdate(id, size_label, price, discount, stock) ==
    [id |-> id, size_label |-> size_label, price |-> price, discount |-> discount,
     stock |-> stock, correction_reason |-> AdminText]

\* category_id: <<>> when the request leaves the field out, else <<value>>
ItemUpdate(category_id, size_updates, sizes_to_delete) ==
    [category_id |-> category_id, sizes |-> size_updates,
     sizes_to_delete |-> sizes_to_delete]

CategoryUpdate(discount) == [discount |-> discount]

CategoryUpdates == {CategoryUpdate(<<d>>) : d \in {None, Some(25)}}

\* a stock correction of S (to 0, or to 3 with the price raised to 120), the
\* addition of size M, the deletion of a size, a change of the item's category.  Sizes are keyed by their label here, so
\* the admin keeps labels unique: an update keeps the size's label, and a size
\* is added only under a label the item does not have
UpdateRequests(szs) ==
    {ItemUpdate(<<>>, <<ItemSizeUpdate(Some("S"), "S", 100, None, Some(0))>>, <<>>),
     ItemUpdate(<<>>, <<ItemSizeUpdate(Some("S"), "S", 120, None, Some(3))>>, <<>>)}
    \cup {ItemUpdate(<<>>, <<ItemSizeUpdate(None, l, 100, None, Some(1))>>, <<>>) :
             l \in {m \in {"M"} : ~szs[<<1, m>>].present}}
    \cup {ItemUpdate(<<>>, <<>>, <<l>>) : l \in SizeLabels}
    \cup {ItemUpdate(<<None>>, <<>>, <<>>)}

(* ------------------------------------------------------------------ *)
(* State machine: one request at a time                               *)
(* ------------------------------------------------------------------ *)

DueBase(amount) == [amount |-> amount]

\* a debt of 50.00 entered by hand, for shopper C1 or for an unknown code
DueRequests == {[customer_code |-> c, due |-> DueBase(5000)] : c \in {"C1", "C9"}}

\* what the caller sees of the last request
Response(op, outcome) ==
    [op |-> op, status |-> outcome.status, detail |-> outcome.detail,
     returned |-> outcome.returned, line |-> outcome.line,
     refund |-> outcome.refund]

Succeeded(outcome) == outcome.status \in {200, 201, 204}

\* Item.category_obj of every item
CategoryObjs ==
    [i \in ItemIds |-> IF IsNone(item_rows[i].category_id) THEN None
                       ELSE Some(categories[Val(item_rows[i].category_id)])]

\* the catalog the admin has set up: size S of item 1 at 100 with 10 percent off
InitialSizes ==
    [k \in SizeKeys |-> IF k = <<1, "S">> THEN ItemSize(100, Some(10), 2) ELSE NoSize]

Init ==
    /\ item_rows = [i \in ItemIds |-> ItemRow(Some("c1"))]
    /\ sizes = InitialSizes
    /\ categories = [c \in CategoryIds |-> [discount |-> Some(0)]]
    /\ history = <<>>
    /\ orders = <<>>
    /\ dues = <<>>
    /\ last = [op |-> "none", status |-> 0, detail |-> "", returned |-> 0, line |-> 0,
               refund |-> NoRefund]
    /\ nOps = 0
    /\ txs = <<>>

\* db.query(Item).filter(Item.id == item_id).first() of the admin handlers,
\* which answer 404 when the row is gone
FindItem(item_id, outcome) ==
    IF item_id \in ItemIds /\ ~item_rows[item_id].present
    THEN Raise(404, "Item not found", Store, 0)
    ELSE outcome

\* the tables a finished request leaves: its commit, or the committed tables
\* when it raised
Installed(outcome) ==
    IF Succeeded(outcome) THEN outcome.db ELSE SessionClose(Store, outcome.db)

\* the request ends: its outcome is committed, or discarded when it raised
Finish(op, outcome) ==
    LET db == Installed(outcome)
    IN /\ sizes' = db.sizes
       /\ history' = db.history
       /\ orders' = db.orders
       /\ dues' = db.dues
       /\ last' = Response(op, outcome)
       /\ nOps' = nOps + 1
       /\ UNCHANGED txs

create_order_for_cashier ==
    /\ nOps < MaxOps
    /\ \E order \in SaleRequests : Finish("sale", CreateOrder(Store, CategoryObjs, order))
    /\ UNCHANGED <<item_rows, categories>>

create_enhanced_order_for_cashier ==
    /\ nOps < MaxOps
    /\ \E order \in EnhancedSaleRequests :
          Finish("enhanced_sale", CreateEnhancedOrder(Store, CategoryObjs, order))
    /\ UNCHANGED <<item_rows, categories>>

process_return ==
    /\ nOps < MaxOps
    /\ \E order_id \in ReturnableOrders(orders) :
         \E return_request \in ReturnRequests(orders, order_id) :
            Finish(IF return_request.return_full_order THEN "return_full_order"
                   ELSE "return_items",
                   ProcessReturn(Store, order_id, return_request))
    /\ UNCHANGED <<item_rows, categories>>

restock_item ==
    /\ nOps < MaxOps
    /\ \E restock \in RestockRequests :
          Finish("restock", FindItem(restock.item_id, RestockItem(Store, restock)))
    /\ UNCHANGED <<item_rows, categories>>

update_item ==
    /\ nOps < MaxOps
    /\ \E item_id \in ItemIds, item_update \in UpdateRequests(sizes) :
          LET outcome == FindItem(item_id, UpdateItem(Store, item_id, item_update)) IN
          /\ Finish("update_item", outcome)
          /\ item_rows' = IF Succeeded(outcome)
                       THEN [item_rows EXCEPT ![item_id] = UpdateItemFields(@, item_update)]
                           ELSE item_rows
    /\ UNCHANGED categories

delete_item ==
    /\ nOps < MaxOps
    /\ \E item_id \in ItemIds :
          LET outcome == FindItem(item_id, DeleteItem(Store, item_id)) IN
          /\ Finish("delete_item", outcome)
          /\ item_rows' = IF Succeeded(outcome)
                           THEN [item_rows EXCEPT ![item_id] = NoItem]
                           ELSE item_rows
    /\ UNCHANGED categories

add_due_or_payment ==
    /\ nOps < MaxOps
    /\ \E request \in DueRequests :
          Finish("add_due", AddDueOrPayment(Store, request.customer_code, request.due))
    /\ UNCHANGED <<item_rows, categories>>

update_category ==
    /\ nOps < MaxOps
    /\ \E category_id \in CategoryIds, category_update \in CategoryUpdates :
          /\ categories' = [categories EXCEPT
                               ![category_id] = UpdateCategory(@, category_update)]
          /\ last' = Response("update_category", Ok(200, Store, 0))
          /\ nOps' = nOps + 1
    /\ UNCHANGED <<item_rows, sizes, history, orders, dues, txs>>

Next ==
    \/ create_order_for_cashier
    \/ create_enhanced_order_for_cashier
    \/ process_return
    \/ restock_item
    \/ update_item
    \/ delete_item
    \/ add_due_or_payment
    \/ update_category

Spec == Init /\ [][Next]_vars

(* ------------------------------------------------------------------ *)
(* Stock and ledger properties                                        *)
(* ------------------------------------------------------------------ *)

SaleOrders == {i \in 1..Len(orders) : IsNumericId(orders[i].transaction_id)}

\* units put back on the shelf for one order line, from the rows the returns wrote
RestockedFor(order_item) ==
    SumSeq([i \in 1..Len(history) |->
              IF history[i].description.order_item = Some(order_item.id)
              THEN history[i].change ELSE 0])

SummedStock(szs, item_id) ==
    SumSeq([i \in 1..2 |->
              LET k == <<item_id, IF i = 1 THEN "S" ELSE "M">> IN
              IF szs[k].present THEN szs[k].stock ELSE 0])

SummedChange(item_id) ==
    SumSeq([i \in 1..Len(history) |->
              IF history[i].item_id = item_id THEN history[i].change ELSE 0])

\* C1: the stock of every ItemSize is at least 0 in every reachable state
C1_StockNeverNegative ==
    \A k \in SizeKeys : sizes[k].present => sizes[k].stock >= 0

\* C2: for every line of a sale, the units restocked by returns never exceed
\* the quantity that was sold on that line
C2_ReturnedWithinSold ==
    \A o \in SaleOrders : \A i \in 1..Len(orders[o].items) :
        orders[o].items[i].quantity > 0 =>
            RestockedFor(orders[o].items[i]) <= orders[o].items[i].quantity

\* C3: per item, the summed InventoryHistory.change equals the current summed
\* stock of its sizes minus the initial summed stock, as long as the requests
\* served were sales, returns, restocks, corrections, size additions and size
\* deletions (the item itself has not been deleted)
C3_Reconciliation ==
    \A item_id \in ItemIds :
        item_rows[item_id].present =>
            SummedChange(item_id) =
                SummedStock(sizes, item_id) - SummedStock(InitialSizes, item_id)

\* C9: the amount of every sale order is at least 0
C9_SaleAmountNonNegative ==
    \A o \in SaleOrders : orders[o].amount >= 0

(* ------------------------------------------------------------------ *)
(* Failed requests                                                    *)
(* ------------------------------------------------------------------ *)

\* C5: a sale (either endpoint) that raises NotFound or InsufficientStock on
\* some line leaves sizes, InventoryHistory, orders and dues as they were,
\* whatever the earlier lines had already changed in the session
C5_FailedSaleChangesNothing ==
    [][(/\ last'.op \in {"sale", "enhanced_sale"}
        /\ last'.status \in {400, 404}
        /\ last'.line >= 1)
       => UNCHANGED <<sizes, history, orders, dues>>]_vars

\* a sale was refused on its second line, after the first line had passed
C5_Witness ==
    /\ last.op = "sale"
    /\ last.status = 400
    /\ last.detail = "Not enough stock"
    /\ last.line = 2

\* the behaviour may still take a request in this state
RequestsLeft == nOps < MaxOps

\* some entry of the request names a line of the order and asks for more than
\* the line's quantity less what returns have restocked for it
ExcessLine(order, return_request) ==
    \E e \in 1..Len(return_request.item_returns) :
        \E i \in 1..Len(order.items) :
            /\ order.items[i].id = return_request.item_returns[e].item_id
            /\ return_request.item_returns[e].quantity >
                   order.items[i].quantity - RestockedFor(order.items[i])

\* C6: a partial return with an entry exceeding original - already_returned
\* is refused and changes nothing, wherever the entry stands in the request
C6_ExcessReturnRejected ==
    \A o \in {i \in SaleOrders : RequestsLeft} :
        \A return_request \in ReturnRequests(orders, o) :
        (~return_request.return_full_order /\ ExcessLine(orders[o], return_request))
        => LET outcome == ProcessReturn(Store, o, return_request)
           IN ~Succeeded(outcome) /\ Installed(outcome) = Store

\* a partial return was refused on its second entry, the first being valid
C6_Witness ==
    /\ last.op = "return_items"
    /\ last.status = 400
    /\ last.detail = "Return quantity exceeds remaining purchased quantity"
    /\ last.line = 2

\* a committed full-order return of the order wrote its closing row
HadFullReturn(order) ==
    \E i \in 1..Len(history) :
        /\ history[i].description.fmt =
              "Return: {}. Entire Order ID: {}. Returned {} items."
        /\ history[i].description.order = Some(order.id)

FullReturnRequests(o) ==
    {r \in ReturnRequests(orders, o) : r.return_full_order}

FullyReturned(order) ==
    /\ \E i \in 1..Len(order.items) : \E h \in 1..Len(history) :
          history[h].description.order_item = Some(order.items[i].id)
    /\ \A i \in 1..Len(order.items) :
          RestockedFor(order.items[i]) >= order.items[i].quantity

\* C8: a full-order return of an order whose every line is fully returned is
\* refused with HTTP 400 and changes nothing
C8_FullReturnOfReturnedOrderRejected ==
    \A o \in {i \in SaleOrders : RequestsLeft /\ FullyReturned(orders[i])} :
        \A return_request \in FullReturnRequests(o) :
           LET outcome == ProcessReturn(Store, o, return_request)
           IN outcome.status = 400 /\ Installed(outcome) = Store

\* a full-order return was refused on an order that partial returns alone had
\* returned in full
C8_Witness ==
    /\ last.op = "return_full_order"
    /\ last.status = 400
    /\ \E o \in SaleOrders : FullyReturned(orders[o]) /\ ~HadFullReturn(orders[o])

(* ------------------------------------------------------------------ *)
(* Pricing of a sale                                                  *)
(* ------------------------------------------------------------------ *)

\* the discount the catalog gives a size: the category's when the item has a
\* category whose discount is set and above 0, else the size's own, else 0
CatalogDiscount(key) ==
    LET category_id == item_rows[key[1]].category_id
        of_category == IF category_id = None THEN None
                       ELSE categories[category_id[1]].discount
    IN IF of_category # None /\ of_category[1] > 0 THEN of_category[1]
       ELSE IF sizes[key].discount = None THEN 0
       ELSE sizes[key].discount[1]

\* a committed sale appended this order in the step
NewSaleOrder ==
    /\ last'.op \in {"sale", "enhanced_sale"}
    /\ last'.status = 201
    /\ Len(orders') = Len(orders) + 1

\* C10: every line of a committed sale carries the category discount when the
\* category has one above 0 and else the size's discount (0 when null), and
\* the order's amount is the sum of price * (1 - discount / 100) * quantity:
\* a size priced 100 with 10 percent off sells at 90 under a category discount
\* of 0 and at 75 under a category discount of 25
C10_DiscountApplied ==
    [][NewSaleOrder =>
         LET order == orders'[Len(orders')]
             key(i) == <<order.items[i].item_id, order.items[i].size_label>>
         IN /\ \A i \in 1..Len(order.items) :
                  /\ order.items[i].discount_applied = CatalogDiscount(key(i))
                  /\ order.items[i].price_at_purchase = sizes[key(i)].price
                  /\ (/\ sizes[key(i)].discount = <<10>>
                      /\ item_rows[key(i)[1]].category_id = <<"c1">>)
                     => /\ categories["c1"].discount = <<0>>
                           => order.items[i].discount_applied = 10
                        /\ categories["c1"].discount = <<25>>
                           => order.items[i].discount_applied = 25
            /\ order.amount =
                  SumSeq([i \in 1..Len(order.items) |->
                            order.items[i].price_at_purchase
                            * (100 - order.items[i].discount_applied)
                            * order.items[i].quantity])
            /\ (Len(order.items) = 1 /\ order.items[1].price_at_purchase = 100)
               => /\ order.items[1].discount_applied = 10
                     => order.amount = 9000 * order.items[1].quantity
                  /\ order.items[1].discount_applied = 25
                     => order.amount = 7500 * order.items[1].quantity]_vars

\* one unit of a size priced 100 with 10 percent off was sold at 75 under a
\* category discount of 25
C10_Witness ==
    /\ last.op = "sale"
    /\ last.status = 201
    /\ categories["c1"].discount = <<25>>
    /\ sizes[<<1, "S">>].discount = <<10>>
    /\ LET order == orders[Len(orders)]
       IN /\ Len(order.items) = 1
          /\ order.items[1].quantity = 1
          /\ order.items[1].discount_applied = 25
          /\ order.amount = 7500

(* ------------------------------------------------------------------ *)
(* Concurrent sales: two sessions on the same tables                  *)
(* ------------------------------------------------------------------ *)

\* create_engine(DATABASE_URL) names no isolation level: the server's setting
\* decides what a session's later SELECT sees
IsolationLevels == {"REPEATABLE READ", "READ COMMITTED"}

Procs == {1, 2}

\* walk-in sales of one line: S, which is in stock, or M
ConcurrentSaleRequests ==
    {OrderCreate(<<OrderItemCreate(<<1, "S">>, q)>>, "", TRUE) : q \in {1, 2}}
    \cup {OrderCreate(<<OrderItemCreate(<<1, "M">>, 1)>>, "", TRUE)}

\* one session: where its handler stands, the request, the committed tables its
\* reads saw, the loop's result, the transaction_id it computed, the committed
\* sizes when it committed and the sessions that were past their check then
Tx(pc, order, view, st, transaction_id, before, overlapped) ==
    [pc |-> pc, order |-> order, view |-> view, st |-> st,
     transaction_id |-> transaction_id, before |-> before, overlapped |-> overlapped]

IdleTx ==
    LET db == [sizes |-> InitialSizes, history |-> <<>>, orders |-> <<>>, dues |-> <<>>]
    IN Tx("idle", OrderCreate(<<>>, "", TRUE), db, SaleLoopState(db, 0, <<>>, 0),
          <<>>, InitialSizes, {})

InitConcurrent ==
    /\ item_rows = [i \in ItemIds |-> ItemRow(Some("c1"))]
    /\ sizes = InitialSizes
    /\ categories = [c \in CategoryIds |-> [discount |-> Some(0)]]
    /\ history = <<>>
    /\ orders = <<>>
    /\ dues = <<>>
    /\ last = [op |-> "none", status |-> 0, detail |-> "", returned |-> 0, line |-> 0,
               refund |-> NoRefund]
    /\ nOps = 0
    /\ \E level \in IsolationLevels :
          txs = [isolation |-> level, tx |-> [p \in Procs |-> IdleTx]]

\* the handler up to the end of its per-line loop: the ItemSize rows are read
\* and checked, the new stock is held in the session
sale_check(p) ==
    /\ nOps < MaxOps
    /\ txs.tx[p].pc \in {"idle", "committed", "failed"}
    /\ \E order \in ConcurrentSaleRequests :
          LET st == SaleLines(SaleLoopState(Store, 0, <<>>, 0), order.items,
                              CategoryObjs)
          IN IF st.status # 0
             THEN /\ txs' = [txs EXCEPT !.tx[p] =
                                Tx("failed", order, Store, st, <<>>, sizes, {})]
                  /\ last' = Response("sale",
                                Raise(st.status,
                                      IF st.status = 404 THEN "Item and size not found"
                                      ELSE "Not enough stock",
                                      st.db, Len(st.order_items) + 1))
             ELSE /\ txs' = [txs EXCEPT !.tx[p] =
                                Tx("checked", order, Store, st, <<>>, sizes, {})]
                  /\ UNCHANGED last
    /\ nOps' = nOps + 1
    /\ UNCHANGED <<item_rows, sizes, categories, history, orders, dues>>

\* the max(transaction_id) query: under REPEATABLE READ it reads the snapshot
\* of the session's first SELECT, under READ COMMITTED the rows committed now
sale_transaction_id(p) ==
    /\ txs.tx[p].pc = "checked"
    /\ txs' = [txs EXCEPT
                 !.tx[p].pc = "numbered",
                 !.tx[p].transaction_id =
                     NextTransactionId(IF txs.isolation = "REPEATABLE READ"
                                       THEN txs.tx[p].view.orders ELSE orders)]
    /\ UNCHANGED <<item_rows, sizes, categories, history, orders, dues, last, nOps>>

\* flush and commit: UPDATE item_sizes SET stock = <the session's value>, the
\* INSERTs; Order.transaction_id is unique, so a taken id fails the INSERT
sale_commit(p) ==
    LET tx == txs.tx[p]
        taken == \E i \in 1..Len(orders) : orders[i].transaction_id = tx.transaction_id
        touched == {<<tx.order.items[i].item_id, tx.order.items[i].size_label>> :
                       i \in 1..Len(tx.order.items)}
        new_order == Order(NewOrderId(orders), tx.transaction_id, tx.st.total, None,
                           FlushOrderItems(tx.st.order_items, NewOrderItemId(orders)))
    IN
    /\ tx.pc = "numbered"
    /\ IF taken
       THEN /\ txs' = [txs EXCEPT !.tx[p].pc = "failed"]
            /\ last' = Response("sale", Raise(500, "IntegrityError", tx.st.db, 0))
            /\ UNCHANGED <<sizes, history, orders, dues>>
       ELSE /\ sizes' = [k \in SizeKeys |->
                           IF k \in touched
                           THEN [sizes[k] EXCEPT !.stock = tx.st.db.sizes[k].stock]
                           ELSE sizes[k]]
            /\ history' = history \o SubSeq(tx.st.db.history,
                                             Len(tx.view.history) + 1,
                                             Len(tx.st.db.history))
            /\ orders' = Append(orders, new_order)
            /\ UNCHANGED dues
            /\ txs' = [txs EXCEPT
                         !.tx[p].pc = "committed",
                         !.tx[p].before = sizes,
                         !.tx[p].overlapped =
                             {q \in Procs \ {p} :
                                 txs.tx[q].pc \in {"checked", "numbered"}}]
            /\ last' = Response("sale", Ok(201, tx.st.db, 0))
    /\ UNCHANGED <<item_rows, categories, nOps>>

NextConcurrent ==
    \E p \in Procs : sale_check(p) \/ sale_transaction_id(p) \/ sale_commit(p)

SpecConcurrent == InitConcurrent /\ [][NextConcurrent]_vars

\* units of a size on the session's order
QuantityOn(p, k) ==
    SumSeq([i \in 1..Len(txs.tx[p].order.items) |->
              IF <<txs.tx[p].order.items[i].item_id,
                   txs.tx[p].order.items[i].size_label>> = k
              THEN txs.tx[p].order.items[i].quantity ELSE 0])

\* C4: two sales of the same ItemSize that had both passed the stock check
\* before either committed do not both commit when their combined quantity
\* exceeds the stock there was before either committed
C4_NoConcurrentOversell ==
    \A p \in Procs : \A q \in Procs \ {p} :
        (/\ txs.tx[p].pc = "committed"
         /\ txs.tx[q].pc = "committed"
         /\ p \in txs.tx[q].overlapped)
        => \A k \in SizeKeys :
              (QuantityOn(p, k) > 0 /\ QuantityOn(q, k) > 0)
              => QuantityOn(p, k) + QuantityOn(q, k) <= txs.tx[q].before[k].stock

(* ------------------------------------------------------------------ *)
(* A store that has been trading                                      *)
(* ------------------------------------------------------------------ *)

\* a sale's InventoryHistory row as the sale handlers write it
SaleHistoryRow(item_id, quantity) ==
    InventoryHistory(item_id, 0 - quantity, "sale",
                     Description("Sale via cashier. Order Item ID: {}",
                                 None, None, NoText))

\* the store before its first sale
FreshStore == [sizes |-> InitialSizes, history |-> <<>>, dues |-> <<>>, orders |-> <<>>]

\* orders carried over from an earlier till, without their lines: their
\* transaction ids are 999, 1005 and a free text
CarriedOverStore ==
    [sizes |-> InitialSizes, history |-> <<>>, dues |-> <<>>,
     orders |-> <<Order(1, Str(999), 0, None, <<>>),
                  Order(2, Str(1005), 0, None, <<>>),
                  Order(3, <<"a", "b", "c">>, 0, None, <<>>)>>]

\* the store after sales 1000 to 10000, of which the first (one S and one M)
\* and the last (one S) are kept here; no order has been returned yet
TradingStore ==
    [sizes |-> [InitialSizes EXCEPT ![<<1, "M">>] = ItemSize(100, None, 1)],
     history |-> <<SaleHistoryRow(1, 1), SaleHistoryRow(1, 1), SaleHistoryRow(1, 1)>>,
     dues |-> <<>>,
     orders |-> <<Order(1, Str(1000), LineAmount(100, 10, 1) + LineAmount(100, 0, 1),
                        None,
                        <<OrderItem(1, 1, "S", 1, 100, 10),
                          OrderItem(2, 1, "M", 1, 100, 0)>>),
                  Order(2, Str(10000), LineAmount(100, 10, 1), None,
                        <<OrderItem(3, 1, "S", 1, 100, 10)>>)>>]

ExistingStores == {FreshStore, CarriedOverStore, TradingStore}

InitExisting ==
    /\ item_rows = [i \in ItemIds |-> ItemRow(Some("c1"))]
    /\ categories = [c \in CategoryIds |-> [discount |-> Some(0)]]
    /\ \E store \in ExistingStores :
          /\ sizes = store.sizes
          /\ history = store.history
          /\ orders = store.orders
          /\ dues = store.dues
    /\ last = [op |-> "none", status |-> 0, detail |-> "", returned |-> 0, line |-> 0,
               refund |-> NoRefund]
    /\ nOps = 0
    /\ txs = <<>>

\* requests served after the store was found in that state
MaxLaterOps == 2

NextExisting ==
    \/ nOps < MaxLaterOps /\ create_order_for_cashier
    \/ nOps < MaxLaterOps /\ process_return
    \/ nOps < MaxLaterOps /\ update_item

SpecExisting == InitExisting /\ [][NextExisting]_vars

\* the numeric transaction ids of the orders, as integers
NumericIds(os) ==
    {CastInteger(os[i].transaction_id) :
        i \in {j \in 1..Len(os) : IsNumericId(os[j].transaction_id)}}

\* C11: the transaction id a committed sale gets is the decimal text of one more
\* than the largest numeric id among the existing orders, or of 1000 when none
\* reaches 999; ids that are not all digits, RETURN_ ids among them, are not
\* counted; so the id is at least 1000 and above every existing numeric id, and
\* a store holding 999, 1005 and "abc" gets 1006
C11_NextTransactionId ==
    [][NewSaleOrder =>
         LET t == orders'[Len(orders')].transaction_id
             n == CastInteger(t)
             existing == NumericIds(orders)
         IN /\ IsNumericId(t)
            /\ t = Str(n)
            /\ n >= 1000
            /\ \A k \in existing : k < n
            /\ n = 1000 \/ n - 1 \in existing
            /\ {orders[i].transaction_id : i \in 1..Len(orders)}
                  = {Str(999), Str(1005), <<"a", "b", "c">>}
               => t = <<"1", "0", "0", "6">>]_vars

\* a sale was committed as 1006 in the store that held 999, 1005 and "abc"
C11_Witness ==
    /\ last.op = "sale"
    /\ last.status = 201
    /\ Len(orders) = 4
    /\ orders[1].transaction_id = Str(999)
    /\ orders[4].transaction_id = <<"1", "0", "0", "6">>

\* the numbers n for which an order RETURN_<transaction id of the sale>_<n> exists
ReturnNumbers(order) ==
    {n \in 1..Len(orders) :
        \E j \in 1..Len(orders) :
           orders[j].transaction_id = ReturnTransactionId(order.transaction_id, n)}

\* C12: the return orders of a sale are numbered 1, 2, 3, ... in the order
\* they were created, each getting the number of the sale's earlier return
\* orders plus one, whatever other orders and returns the store holds
C12_ReturnNumbering ==
    \A i \in SaleOrders :
       ReturnNumbers(orders[i]) = 1..Cardinality(ReturnNumbers(orders[i]))

(* ------------------------------------------------------------------ *)
(* Refunds and balances                                               *)
(* ------------------------------------------------------------------ *)

\* a committed return appended its reversal order in the step
NewReturnOrder ==
    /\ last'.op \in {"return_full_order", "return_items"}
    /\ last'.status = 200
    /\ Len(orders') = Len(orders) + 1

\* what the shopper owes: the sum of the shopper's Due rows
Owed(ds, shopper_id) ==
    SumSeq([i \in 1..Len(ds) |-> IF ds[i].shopper_id = shopper_id THEN ds[i].amount ELSE 0])

\* C13: a return on an order with a shopper applies min(refund total, dues
\* balance before) to the dues, and the rest goes to cash_refund (method cash)
\* or to added_to_advance as one negative Due row (method advance), so that the
\* three parts add up to the refund total and the dues balance falls by the
\* part applied to it
C13_RefundAllocation ==
    [][NewReturnOrder /\ orders'[Len(orders')].shopper_id # None =>
         LET return_order == orders'[Len(orders')]
             shopper_id == return_order.shopper_id[1]
             total == 0 - return_order.amount
             dues_balance == Max(Owed(dues, shopper_id), 0)
             refund == last'.refund
             rest == total - refund.applied_to_dues
             row(amount) == IF amount > 0
                            THEN <<Due(shopper_id, Some(return_order.id), 0 - amount)>>
                            ELSE <<>>
         IN /\ refund.applied_to_dues = Min(total, dues_balance)
            /\ refund.refund_method = "cash" =>
                  refund.cash_refund = rest /\ refund.added_to_advance = 0
            /\ refund.refund_method = "advance" =>
                  refund.added_to_advance = rest /\ refund.cash_refund = 0
            /\ refund.applied_to_dues + refund.cash_refund + refund.added_to_advance
                  = total
            /\ dues' = dues \o row(refund.applied_to_dues) \o row(refund.added_to_advance)
            /\ Max(Owed(dues', shopper_id), 0) = dues_balance - refund.applied_to_dues]_vars

\* the OrderItem row with this id among the sale orders
SoldLine(os, id) ==
    CHOOSE order_item \in
             UNION {{os[i].items[j] : j \in 1..Len(os[i].items)} :
                      i \in {k \in 1..Len(os) : IsNumericId(os[k].transaction_id)}} :
        order_item.id = id

\* C14: the reversal order of a return amounts to minus the sum, over the
\* lines put back, of returned quantity * price_at_purchase *
\* (1 - discount_applied / 100) as recorded on the original OrderItem, and its
\* lines copy that price and discount, whatever the catalog says at the time
\* of the return
C14_RefundFromSnapshot ==
    [][NewReturnOrder =>
         LET return_order == orders'[Len(orders')]
             added == SubSeq(history', Len(history) + 1, Len(history'))
             restocked == SelectSeq(added, LAMBDA row : row.description.order_item # None)
             sold(i) == SoldLine(orders, restocked[i].description.order_item[1])
         IN /\ return_order.amount =
                  0 - SumSeq([i \in 1..Len(restocked) |->
                                restocked[i].change * sold(i).price_at_purchase
                                  * (100 - sold(i).discount_applied)])
            /\ Len(return_order.items) = Len(restocked)
            /\ \A i \in 1..Len(restocked) :
                  /\ return_order.items[i].quantity = 0 - restocked[i].change
                  /\ return_order.items[i].price_at_purchase = sold(i).price_at_purchase
                  /\ return_order.items[i].discount_applied = sold(i).discount_applied]_vars

\* a line sold at 100 with 10 percent off was returned for 90 after the size
\* had been repriced to 120 without a discount of its own
C14_Witness ==
    /\ last.op \in {"return_full_order", "return_items"}
    /\ last.status = 200
    /\ last.returned = 1
    /\ sizes[<<1, "S">>].present
    /\ sizes[<<1, "S">>].price = 120
    /\ orders # <<>>
    /\ orders[Len(orders)].amount = 0 - LineAmount(100, 10, 1)
    /\ orders[Len(orders)].items[1].price_at_purchase = 100

(* ------------------------------------------------------------------ *)
(* Rows written by a sale                                             *)
(* ------------------------------------------------------------------ *)

\* C15: a sale through the basic endpoint writes exactly one Due row, of the
\* order's total and carrying the new order's id, when a shopper is attached
\* and is_paid is false, and no Due row otherwise
C15_DueRowOfUnpaidSale ==
    RequestsLeft =>
      \A order \in SaleRequests :
         LET outcome == CreateOrder(Store, CategoryObjs, order)
             new_order == outcome.db.orders[Len(outcome.db.orders)]
         IN outcome.status = 201 =>
              /\ Len(outcome.db.orders) = Len(orders) + 1
              /\ outcome.db.dues =
                    IF order.customer_code = "C1" /\ ~order.is_paid
                    THEN Append(dues, [shopper_id |-> 1, order_id |-> <<new_order.id>>,
                                       amount |-> new_order.amount])
                    ELSE dues

\* shopper C1 bought on credit, and the Due row of that order is the last one
C15_Witness ==
    /\ last.op = "sale"
    /\ last.status = 201
    /\ dues # <<>>
    /\ dues[Len(dues)].order_id = <<orders[Len(orders)].id>>
    /\ dues[Len(dues)].amount = orders[Len(orders)].amount
    /\ dues[Len(dues)].amount > 0

C17_Balances ==
    \A shopper_id \in {None} \cup {Some(i) : i \in ShopperIds \cup {2}} :
       LET balances == ComputeBalances(dues, shopper_id) IN
       /\ balances.dues_balance >= 0
       /\ balances.advance_balance >= 0
       /\ balances.dues_balance = 0 \/ balances.advance_balance = 0
       /\ shopper_id # None =>
             balances.dues_balance - balances.advance_balance
               = Owed(dues, shopper_id[1])
       /\ shopper_id = None =>
             balances.dues_balance = 0 /\ balances.advance_balance = 0

\* the shopper's Due rows, a debt among them, add up to a credit
C17_Witness ==
    /\ \E i \in 1..Len(dues) : dues[i].amount > 0
    /\ ComputeBalances(dues, Some(1)).advance_balance > 0

\* C18: every InventoryHistory row written by a sale has type sale, a change of
\* minus the quantity sold, and a description that contains the id of the
\* OrderItem created for that line
C18_SaleRowNamesOrderItem ==
    \A i \in 1..Len(history) :
       history[i].type = "sale" =>
         \E o \in SaleOrders :
            \E j \in 1..Len(orders[o].items) :
               /\ history[i].description.order_item = <<orders[o].items[j].id>>
               /\ history[i].item_id = orders[o].items[j].item_id
               /\ history[i].change = 0 - orders[o].items[j].quantity

(* ------------------------------------------------------------------ *)
(* Returns after the catalog changed                                  *)
(* ------------------------------------------------------------------ *)

\* the return path finds no return recorded for the order or any of its lines
Untouched(order) ==
    /\ \A i \in 1..Len(history) :
          ~LikeReturnOfEntireOrder(history[i].description, order.id)
    /\ \A j \in 1..Len(order.items) : TotalReturned(history, order.items[j], FALSE) = 0

\* the lines a well-formed return request asks to put back, or <<>> when the
\* request is not well formed: a full return of lines with quantities above 0,
\* or entries naming lines of the order with quantities from 1 to the line's
LinesToReturn(order, return_request) ==
    LET named == [i \in 1..Len(return_request.item_returns) |->
                    OrderItemOf(order, return_request.item_returns[i].item_id)]
    IN IF return_request.return_full_order
       THEN IF \A j \in 1..Len(order.items) : order.items[j].quantity > 0
            THEN order.items ELSE <<>>
       ELSE IF \A i \in 1..Len(named) :
                  /\ named[i] # None
                  /\ return_request.item_returns[i].quantity \in 1..named[i][1].quantity
            THEN [i \in 1..Len(named) |-> named[i][1]]
            ELSE <<>>

\* C19: a return, of the whole order or of some lines, that comes to a line
\* whose ItemSize no longer exists fails with 404 and changes nothing, the
\* lines it had put back before the missing one included
C19_ReturnOfMissingSizeRejected ==
    nOps < MaxLaterOps =>
      \A o \in {i \in SaleOrders : Untouched(orders[i])} :
         \A return_request \in ReturnRequests(orders, o) :
            LET outcome == ProcessReturn(Store, o, return_request)
                lines == LinesToReturn(orders[o], return_request)
            IN (\E j \in 1..Len(lines) :
                   ~sizes[<<lines[j].item_id, lines[j].size_label>>].present)
               => /\ outcome.status = 404
                  /\ outcome.detail = "Item size not found"
                  /\ Installed(outcome) = Store

\* a full return put the first line back, came to a second line whose size
\* had been deleted, and was refused
C19_Witness ==
    /\ last.op = "return_full_order"
    /\ last.status = 404
    /\ last.line = 2
    /\ sizes[<<1, "S">>].present
    /\ ~sizes[<<1, "M">>].present
    /\ \A i \in 1..Len(orders) : IsNumericId(orders[i].transaction_id)

(* ------------------------------------------------------------------ *)
(* Committed orders                                                   *)
(* ------------------------------------------------------------------ *)

\* C20: no request changes or deletes an Order row or any of its OrderItem
\* rows once they are committed
C20_CommittedOrdersImmutable ==
    [][\A i \in 1..Len(orders) : i <= Len(orders') /\ orders'[i] = orders[i]]_vars

(* ------------------------------------------------------------------ *)
(* Append-only ledgers                                                *)
(* ------------------------------------------------------------------ *)

\* s is an initial segment of t
IsPrefix(s, t) == Len(s) <= Len(t) /\ SubSeq(t, 1, Len(s)) = s

\* the items deleted by the step
DeletedItems == {i \in ItemIds : item_rows[i].present /\ ~item_rows'[i].present}

\* C21: every step keeps the committed Due rows as they are and only appends
\* to them, and keeps the committed InventoryHistory rows as they are, in
\* order, except the rows of an item deleted by the step
C21_AppendOnly ==
    [][/\ IsPrefix(dues, dues')
       /\ IsPrefix(SelectSeq(history, LAMBDA row : row.item_id \notin DeletedItems),
                   history')]_vars

\* an item with sales on account has been deleted: its history rows are gone,
\* the Due rows of its orders remain
C21_Witness ==
    /\ last.op = "delete_item"
    /\ last.status = 204
    /\ history = <<>>
    /\ \E i \in 1..Len(dues) : dues[i].order_id # None

(* ------------------------------------------------------------------ *)
(* Overlapping sessions: sales, returns, restocks and corrections     *)
(* ------------------------------------------------------------------ *)

MaxSessionOps == 3

\* Item.category_obj in a catalog whose category carries no discount
PlainCategoryObjs == [i \in ItemIds |-> Some([discount |-> Some(0)])]

\* the catalog with four units of S on the shelf
StockedSizes == [InitialSizes EXCEPT ![<<1, "S">>].stock = 4]

\* the tables after shopper C1 bought two units of S on account, from a stock of 4
SoldStore ==
    CreateOrder([FreshStore EXCEPT !.sizes = StockedSizes], PlainCategoryObjs,
                OrderCreate(<<OrderItemCreate(<<1, "S">>, 2)>>, "C1", FALSE)).db

\* a request with the path parameter it carries (an order id, an item id)
SessionRequest(kind, target, body) == [kind |-> kind, target |-> target, body |-> body]

\* one unit of S sold to C1 on account; order 1 returned in full, or one unit
\* of its line; S restocked by one; S corrected to 5
SessionRequests ==
    {SessionRequest("sale", 0,
                    OrderCreate(<<OrderItemCreate(<<1, "S">>, 1)>>, "C1", FALSE))}
    \cup {SessionRequest("return", 1, ReturnRequest(<<>>, PlainReason, TRUE, "cash"))}
    \cup {SessionRequest("return", 1,
                         ReturnRequest(<<ReturnItemRequest(1, 1)>>, PlainReason, FALSE,
                                       "cash"))}
    \cup {SessionRequest("restock", 1, RestockRequest(<<1, "S">>, 1))}
    \cup {SessionRequest("update_item", 1,
                         ItemUpdate(<<>>,
                                    <<ItemSizeUpdate(Some("S"), "S", 100, None, Some(5))>>,
                                    <<>>))}

\* the handler of a request, run on the tables its SELECTs return
Handle(request, db, cats) ==
    CASE request.kind = "sale" -> CreateOrder(db, cats, request.body)
      [] request.kind = "return" -> ProcessReturn(db, request.target, request.body)
      [] request.kind = "restock" -> RestockItem(db, request.body)
      [] OTHER -> UpdateItem(db, request.target, request.body)

\* one session: where its handler stands, its request, the committed tables
\* its first SELECT saw, the tables its SELECTs returned, the handler's
\* result, the committed tables when it committed and the sessions that were
\* between their first SELECT and their commit then
SessionTx(pc, request, view, base, outcome, before, overlapped) ==
    [pc |-> pc, request |-> request, view |-> view, base |-> base, outcome |-> outcome,
     before |-> before, overlapped |-> overlapped]

IdleSession ==
    SessionTx("idle", SessionRequest("none", 0, <<>>), SoldStore, SoldStore,
              Ok(200, SoldStore, 0), SoldStore, {})

InitSessions ==
    /\ item_rows = [i \in ItemIds |-> ItemRow(Some("c1"))]
    /\ sizes = SoldStore.sizes
    /\ categories = [c \in CategoryIds |-> [discount |-> Some(0)]]
    /\ history = SoldStore.history
    /\ orders = SoldStore.orders
    /\ dues = SoldStore.dues
    /\ last = [op |-> "none", status |-> 0, detail |-> "", returned |-> 0, line |-> 0,
               refund |-> NoRefund]
    /\ nOps = 0
    /\ \E level \in IsolationLevels :
          txs = [isolation |-> level, tx |-> [p \in Procs |-> IdleSession]]

\* the handler's first part: the order or the item is looked up, the ItemSize
\* and InventoryHistory rows are read and the request is validated.  A restock
\* and an item update read nothing further.
session_begin(p) ==
    /\ nOps < MaxSessionOps
    /\ txs.tx[p].pc \in {"idle", "committed", "failed"}
    /\ \E request \in SessionRequests :
          LET outcome == Handle(request, Store, CategoryObjs) IN
          IF ~Succeeded(outcome)
          THEN /\ txs' = [txs EXCEPT !.tx[p] =
                             SessionTx("failed", request, Store, Store, outcome, Store, {})]
               /\ last' = Response(request.kind, outcome)
          ELSE /\ txs' = [txs EXCEPT !.tx[p] =
                             SessionTx(IF request.kind \in {"sale", "return"}
                                       THEN "read" ELSE "ready",
                                       request, Store, Store, outcome, Store, {})]
               /\ UNCHANGED last
    /\ nOps' = nOps + 1
    /\ UNCHANGED <<item_rows, sizes, categories, history, orders, dues>>

\* the handler's later SELECTs, on orders (max or count of transaction ids)
\* and on dues: under REPEATABLE READ they read the snapshot of the session's
\* first SELECT, under READ COMMITTED the rows committed by now
session_number(p) ==
    LET tx == txs.tx[p]
        base == IF txs.isolation = "REPEATABLE READ" THEN tx.view
                ELSE [tx.view EXCEPT !.orders = orders, !.dues = dues]
        outcome == Handle(tx.request, base, CategoryObjs)
    IN
    /\ tx.pc = "read"
    /\ IF ~Succeeded(outcome)
       THEN /\ txs' = [txs EXCEPT !.tx[p].pc = "failed", !.tx[p].outcome = outcome]
            /\ last' = Response(tx.request.kind, outcome)
       ELSE /\ txs' = [txs EXCEPT !.tx[p].pc = "ready", !.tx[p].base = base,
                                  !.tx[p].outcome = outcome]
            /\ UNCHANGED last
    /\ UNCHANGED <<item_rows, sizes, categories, history, orders, dues, nOps>>

\* the rows a session holds that the tables it read did not have
PendingOrders(tx) ==
    SubSeq(tx.outcome.db.orders, Len(tx.base.orders) + 1, Len(tx.outcome.db.orders))

PendingHistory(tx) ==
    SubSeq(tx.outcome.db.history, Len(tx.base.history) + 1, Len(tx.outcome.db.history))

PendingDues(tx) ==
    SubSeq(tx.outcome.db.dues, Len(tx.base.dues) + 1, Len(tx.outcome.db.dues))

\* variant: the orders table has no unique index on transaction_id
UniqueViolationUnchecked(os, pending) == FALSE

\* Order.transaction_id is unique: the INSERT of a taken id fails
UniqueViolation(os, pending) ==
    \E i \in 1..Len(os), j \in 1..Len(pending) :
        os[i].transaction_id = pending[j].transaction_id

\* flush and commit.  The UPDATE of a row sets the columns the session
\* changed to the session's values; the INSERTs get fresh primary keys.  A
\* failed INSERT raises out of the handler and the session is closed without
\* a commit.
session_commit(p) ==
    LET tx == txs.tx[p]
        out == tx.outcome.db
        order_id == NewOrderId(orders)
        new_orders ==
            [i \in 1..Len(PendingOrders(tx)) |->
                [PendingOrders(tx)[i] EXCEPT
                    !.id = order_id,
                    !.items = FlushOrderItems(@, NewOrderItemId(orders))]]
        new_dues ==
            [i \in 1..Len(PendingDues(tx)) |->
                IF PendingDues(tx)[i].order_id = Some(NewOrderId(tx.base.orders))
                THEN [PendingDues(tx)[i] EXCEPT !.order_id = Some(order_id)]
                ELSE PendingDues(tx)[i]]
    IN
    /\ tx.pc = "ready"
    /\ IF UniqueViolation(orders, PendingOrders(tx))
       THEN /\ txs' = [txs EXCEPT !.tx[p].pc = "failed"]
            /\ last' = Response(tx.request.kind,
                                Raise(500, "IntegrityError", SessionClose(Store, out), 0))
            /\ UNCHANGED <<sizes, history, orders, dues>>
       ELSE /\ sizes' = [k \in SizeKeys |->
                           [f \in DOMAIN sizes[k] |->
                               IF out.sizes[k][f] # tx.base.sizes[k][f]
                               THEN out.sizes[k][f] ELSE sizes[k][f]]]
            /\ history' = history \o PendingHistory(tx)
            /\ orders' = orders \o new_orders
            /\ dues' = dues \o new_dues
            /\ txs' = [txs EXCEPT
                         !.tx[p].pc = "committed",
                         !.tx[p].before = Store,
                         !.tx[p].overlapped =
                             {q \in Procs \ {p} : txs.tx[q].pc \in {"read", "ready"}}]
            /\ last' = Response(tx.request.kind, tx.outcome)
    /\ UNCHANGED <<item_rows, categories, nOps>>

NextSessions ==
    \E p \in Procs : session_begin(p) \/ session_number(p) \/ session_commit(p)

SpecSessions == InitSessions /\ [][NextSessions]_vars

\* the transaction_id a session computed for the order it is about to insert
ComputedId(p) ==
    IF PendingOrders(txs.tx[p]) = <<>> THEN <<>>
    ELSE PendingOrders(txs.tx[p])[1].transaction_id

NoSharedTransactionId ==
    \A i \in 1..Len(orders) : \A j \in 1..Len(orders) :
        i # j => orders[i].transaction_id # orders[j].transaction_id

\* C22: no two committed orders share a transaction_id, and a sale or return
\* that reaches its flush with a transaction_id some committed order carries
\* ends in an error and leaves stock, InventoryHistory, orders and dues as
\* they were
C22_UniqueTransactionId ==
    /\ []NoSharedTransactionId
    /\ [][\A p \in Procs :
             (/\ txs.tx[p].pc = "ready"
              /\ txs'.tx[p].pc # "ready"
              /\ \E i \in 1..Len(orders) : orders[i].transaction_id = ComputedId(p))
             => /\ ~Succeeded(last')
                /\ txs'.tx[p].pc = "failed"
                /\ UNCHANGED <<sizes, history, orders, dues>>]_vars

\* two returns of order 1 computed the same RETURN_ id: one is committed, the
\* other has just failed
C22_Witness ==
    \E p \in Procs : \E q \in Procs \ {p} :
        /\ txs.tx[p].request.kind = "return"
        /\ txs.tx[q].request.kind = "return"
        /\ txs.tx[p].pc = "failed"
        /\ txs.tx[q].pc = "committed"
        /\ last.status = 500
        /\ ComputedId(p) # <<>>
        /\ ComputedId(p) = ComputedId(q)

\* sessions p and q have both committed, and p was between its first SELECT
\* and its commit when q committed
BothCommitted(p, q) ==
    /\ txs.tx[p].pc = "committed"
    /\ txs.tx[q].pc = "committed"
    /\ p \in txs.tx[q].overlapped

\* C23: two returns of the same order that ran concurrently and both
\* committed have together restocked, for every line of the order, no more
\* than the line's quantity
C23_NoConcurrentOverReturn ==
    \A p \in Procs : \A q \in Procs \ {p} :
        (/\ BothCommitted(p, q)
         /\ txs.tx[p].request.kind = "return"
         /\ txs.tx[q].request.kind = "return"
         /\ txs.tx[p].request.target = txs.tx[q].request.target)
        => LET order == orders[txs.tx[p].request.target] IN
           \A i \in 1..Len(order.items) :
               RestockedFor(order.items[i]) <= order.items[i].quantity

\* C24: after a sale or return and a restock or stock correction of the same
\* ItemSize ran concurrently and both committed, the item's summed
\* InventoryHistory.change equals its stock change since the catalog was set up
C24_ConcurrentReconciliation ==
    \A p \in Procs : \A q \in Procs \ {p} :
        (/\ BothCommitted(p, q) \/ BothCommitted(q, p)
         /\ txs.tx[p].request.kind \in {"sale", "return"}
         /\ txs.tx[q].request.kind \in {"restock", "update_item"})
        => \A item_id \in ItemIds :
              SummedChange(item_id) =
                  SummedStock(sizes, item_id) - SummedStock(StockedSizes, item_id)

(* ------------------------------------------------------------------ *)
(* What a return counts as already returned                           *)
(* ------------------------------------------------------------------ *)

\* the rows of hist written by returns of one order line
ReturnRowsIn(hist, order_item) ==
    {i \in 1..Len(hist) :
        /\ hist[i].description.fmt \in
              {"Return: {}. Order Item ID: {}. Returned entire order. Returned {} of size {}",
               "Return: {}. Order Item ID: {}. Returned {} of size {}"}
        /\ hist[i].description.order_item = Some(order_item.id)}

\* units moved by the returns of one order line that hist records
ActuallyReturnedIn(hist, order_item) ==
    SumSeq([i \in 1..Len(hist) |->
              IF i \in ReturnRowsIn(hist, order_item) THEN Abs(hist[i].change) ELSE 0])

ActuallyReturned(order_item) == ActuallyReturnedIn(history, order_item)

\* C25: for every line of every sale, the already-returned quantity that the
\* return path computes from the InventoryHistory descriptions is the number
\* of units the committed returns of that line moved
C25_AlreadyReturnedIsExact ==
    \A o \in SaleOrders : \A i \in 1..Len(orders[o].items) :
        TotalReturned(history, orders[o].items[i], TRUE)
            = ActuallyReturned(orders[o].items[i])

(* ------------------------------------------------------------------ *)
(* Full-order return after partial returns                            *)
(* ------------------------------------------------------------------ *)

\* a partial return of a line of order o is committed
PartlyReturned(o) ==
    \E i \in 1..Len(history) : \E j \in 1..Len(orders[o].items) :
        /\ history[i].description.fmt = "Return: {}. Order Item ID: {}. Returned {} of size {}"
        /\ history[i].description.order_item = Some(orders[o].items[j].id)

\* some line of order o has units that no return has moved yet
UnitsLeft(o) ==
    \E i \in 1..Len(orders[o].items) :
        ActuallyReturned(orders[o].items[i]) < orders[o].items[i].quantity

\* every line of order o names a size the catalog still has
OnCatalog(o) ==
    \A i \in 1..Len(orders[o].items) :
        sizes[<<orders[o].items[i].item_id, orders[o].items[i].size_label>>].present

\* C26: a full-order return of an order that has partial returns and units
\* left, and whose sizes are all on the catalog, succeeds; it moves, for each line, the line's quantity less the units
\* returned before (nothing for a line already returned in full), refunds
\* those units at the line's recorded price, and leaves every line returned in
\* full
C26_FullReturnAfterPartial ==
    RequestsLeft =>
    \A o \in SaleOrders : \A return_request \in FullReturnRequests(o) :
        (PartlyReturned(o) /\ UnitsLeft(o) /\ OnCatalog(o))
        => LET outcome == ProcessReturn(Store, o, return_request)
               Moved(line) == ActuallyReturnedIn(outcome.db.history, line)
                                  - ActuallyReturned(line)
           IN /\ Succeeded(outcome)
              /\ \A i \in 1..Len(orders[o].items) :
                    LET line == orders[o].items[i] IN
                    /\ Moved(line) = Max(0, line.quantity - ActuallyReturned(line))
                    /\ ActuallyReturnedIn(outcome.db.history, line) >= line.quantity
              /\ Len(outcome.db.orders) = Len(orders) + 1
              /\ 0 - outcome.db.orders[Len(outcome.db.orders)].amount =
                    SumSeq([i \in 1..Len(orders[o].items) |->
                              LET line == orders[o].items[i] IN
                              LineAmount(line.price_at_purchase, line.discount_applied,
                                         Moved(line))])

(* ------------------------------------------------------------------ *)
(* Signs of order lines                                               *)
(* ------------------------------------------------------------------ *)

\* C27: every line of a sale order (numeric transaction_id) has a quantity
\* above 0 and every line of a reversal order (transaction_id RETURN_...) has
\* a quantity below 0
C27_QuantitySigns ==
    \A o \in 1..Len(orders) : \A i \in 1..Len(orders[o].items) :
        /\ IsNumericId(orders[o].transaction_id) => orders[o].items[i].quantity > 0
        /\ LikePrefix(orders[o].transaction_id, ReturnPrefix)
              => orders[o].items[i].quantity < 0

(* ------------------------------------------------------------------ *)
(* Dues after an enhanced sale with a payment                         *)
(* ------------------------------------------------------------------ *)

\* C28: an enhanced sale to a shopper whose payment_breakdown is accepted
\* leaves the shopper's summed Due balance at the balance before, plus the
\* order total, minus payment_amount, within 0.01
C28_DuesAfterPayment ==
    RequestsLeft =>
      \A order \in {o \in EnhancedSaleRequests :
                       /\ ShopperByCode(o.customer_code) # None
                       /\ o.payment_amount # None /\ o.payment_breakdown # None} :
         LET outcome == CreateEnhancedOrder(Store, CategoryObjs, order)
             shopper_id == Val(ShopperByCode(order.customer_code))
             total == outcome.db.orders[Len(outcome.db.orders)].amount
         IN Succeeded(outcome) =>
              Abs(Owed(outcome.db.dues, shopper_id)
                    - (Owed(dues, shopper_id) + total - Val(order.payment_amount))) <= 1

(* ------------------------------------------------------------------ *)
(* A sale undone by a full-order return                               *)
(* ------------------------------------------------------------------ *)

\* sale requests whose lines all ask for a quantity above 0
PositiveSaleRequests ==
    {order \in SaleRequests : \A i \in 1..Len(order.items) : order.items[i].quantity > 0}

\* C29: when a sale with positive quantities is accepted and the order is
\* then returned in full before anything else touches the stock, the return
\* succeeds, every ItemSize is back at its stock before the sale, and the
\* reversal order's amount is the negative of the sale order's amount
C29_SaleThenFullReturn ==
    RequestsLeft =>
      \A order \in PositiveSaleRequests :
         LET sold == CreateOrder(Store, CategoryObjs, order)
             order_id == NewOrderId(orders)
         IN Succeeded(sold) =>
              \A return_request \in {r \in ReturnRequests(sold.db.orders, order_id) :
                                        r.return_full_order} :
                 LET returned == ProcessReturn(sold.db, order_id, return_request) IN
                 /\ Succeeded(returned)
                 /\ returned.db.sizes = sizes
                 /\ Len(returned.db.orders) = Len(orders) + 2
                 /\ returned.db.orders[order_id + 1].amount
                       = 0 - returned.db.orders[order_id].amount

\* a sale of two lines at 90.00 each has been returned in full: the stock is
\* what the catalog started with and the reversal order is for -180.00
C29_Witness ==
    /\ nOps = 2
    /\ last.op = "return_full_order"
    /\ last.status = 200
    /\ sizes = InitialSizes
    /\ Len(orders) = 2
    /\ Len(orders[1].items) = 2
    /\ orders[1].amount = 18000
    /\ orders[2].amount = -18000

(* ------------------------------------------------------------------ *)
(* The two sale endpoints                                             *)
(* ------------------------------------------------------------------ *)

\* the request of the enhanced endpoint that carries what a basic request
\* carries and no payment data
WithoutPayment(order) ==
    EnhancedOrderCreate(order.items, order.customer_code, order.is_paid, None, None)

\* C30: for the same items, customer_code and is_paid and no payment data, the
\* enhanced endpoint and the basic endpoint answer with the same status and
\* leave the same stock, InventoryHistory rows, orders with their lines and
\* transaction_id, and Due rows
C30_EndpointsAgree ==
    RequestsLeft =>
      \A order \in SaleRequests :
         LET basic == CreateOrder(Store, CategoryObjs, order)
             enhanced == CreateEnhancedOrder(Store, CategoryObjs, WithoutPayment(order))
         IN /\ basic.status = enhanced.status
            /\ Installed(basic) = Installed(enhanced)

\* the enhanced endpoint, given no payment data, has sold one unit of S to
\* shopper C1 on account at the discounted category price
C30_Witness ==
    /\ last.op = "enhanced_sale"
    /\ last.status = 201
    /\ categories["c1"].discount = Some(25)
    /\ Len(orders) = 1
    /\ orders[1].amount = 7500
    /\ dues = <<Due(1, Some(1), 7500)>>

====
